---- MODULE Spec2Model ----
(***************************************************************************)
(* Model of the core ledger primitives of beam (core/block_crypt.cpp):     *)
(* transaction normalization, kernel ordering and validation, output       *)
(* validation and the protocol-parameter checksum.                         *)
(*                                                                         *)
(* Hash values, oracle outputs, signatures and range proofs are modelled   *)
(* as the transcript (sequence of integers) they were computed over: a     *)
(* collision-free hash, an unforgeable signature, a sound proof.  Curve    *)
(* points are the integers modulo GroupOrder (generator G = 1).            *)
(***************************************************************************)
EXTENDS Integers, Sequences, FiniteSets, TLC

VARIABLES
    g_Rules,        \* the process-wide Rules singleton
    m_vInputs,      \* TxVectors::Perishable::m_vInputs
    m_vOutputs,     \* TxVectors::Perishable::m_vOutputs
    m_vKernels,     \* TxVectors::Eternal::m_vKernels
    txPrev,         \* the three vectors as they were before the last Normalize
    nNormalized,    \* Normalize calls since the vectors were last written
    retNormalize,   \* value returned by the last Normalize
    krnA,           \* a kernel, the receiver of cmp
    krnB,           \* a kernel, the argument of cmp
    cmpRes,         \* << krnA.cmp(krnB), krnB.cmp(krnA) >> once computed
    vKrn,           \* a kernel being validated
    vRes,           \* the last IsValid on vKrn: hScheme, the result, exc
    outp,           \* an Output
    outRes,         \* the last IsValid on outp: hScheme, the result
    csRes,          \* the last UpdateChecksum on g_Rules: threw or not, pForks at entry
    rulesRef,       \* g_Rules as it was when a checksummed g_Rules was last altered
    nAltered,       \* the number of alterations of g_Rules so far
    emq,            \* the last Rules::get_Emission(h): h and the amount
    emLoop,         \* Rules::get_Emission(res, hr, base) in progress: its locals
    hrq,            \* the last HeightRange::IsInRange: the range, h, the result
    matq,           \* the last Output::get_MinMaturity: the output, h, the result
    wKrns,          \* the kernel vector given to TxKernel::IWalker::Process
    wRes,           \* the last walk: the OnKrn calls made, the value returned
    rdThis,         \* the vectors behind the reader Compare is called on
    rdOther,        \* the vectors behind the reader given to Compare
    rdRes,          \* the last Compare: bICover, bOtherCovers, the positions
    hdrA,           \* a block header (SystemState::Full); in a chain, the previous one
    hdrB,           \* another block header; in a chain, the one being built
    hdrRes,         \* the hashes last computed of hdrA and hdrB, or the NextPrefix count
    pfThis,         \* the current state (SystemState::Full) a proof is checked against
    pfProof,        \* a kernel ID and its TxKernel::LongProof
    pfRes,          \* the last IsValidProofKernel: the result
    m_Map,          \* HistoryMap::m_Map: the states by height
    hmAdded,        \* per height, the state AddStates was last given
    hmRes           \* the last call on the HistoryMap: its arguments and outcome

vars == <<g_Rules, m_vInputs, m_vOutputs, m_vKernels, txPrev, nNormalized, retNormalize,
          krnA, krnB, cmpRes, vKrn, vRes, outp, outRes, csRes, rulesRef, nAltered,
          emq, emLoop, hrq, matq, wKrns, wRes, rdThis, rdOther, rdRes,
          hdrA, hdrB, hdrRes, pfThis, pfProof, pfRes,
          m_Map, hmAdded, hmRes>>

txVars == <<m_vInputs, m_vOutputs, m_vKernels, txPrev, nNormalized, retNormalize>>

cmpVars == << krnA, krnB, cmpRes >>

validVars == << vKrn, vRes >>

outVars == << outp, outRes >>

rulesVars == << csRes, rulesRef, nAltered >>

emVars == << emq, emLoop >>

hqVars == << hrq, matq >>

walkVars == << wKrns, wRes >>

rdVars == << rdThis, rdOther, rdRes >>

hdrVars == << hdrA, hdrB, hdrRes >>

pfVars == << pfThis, pfProof, pfRes >>

hmVars == << m_Map, hmAdded, hmRes >>

coreVars == << txVars, cmpVars, validVars, outVars, rulesVars >>

laterVars == << emVars, hqVars, walkVars, rdVars, hdrVars, pfVars, hmVars >>

\* what the operations on the transaction vectors leave alone
notTx == << g_Rules, cmpVars, validVars, outVars, rulesVars, laterVars >>

\* what the comparison of kernels leaves alone
notCmp == << g_Rules, txVars, validVars, outVars, rulesVars, laterVars >>

\* what the validation of a kernel leaves alone
notValid == << g_Rules, txVars, cmpVars, outVars, rulesVars, laterVars >>

\* what the operations on an output leave alone
notOut == << g_Rules, txVars, cmpVars, validVars, rulesVars, laterVars >>

\* what the operations on the rules leave alone
notRules == << txVars, cmpVars, validVars, outVars, laterVars >>

\* what the emission computations leave alone
notEm == << g_Rules, coreVars, hqVars, walkVars, rdVars, hdrVars, pfVars, hmVars >>

\* what the height computations leave alone
notHq == << g_Rules, coreVars, emVars, walkVars, rdVars, hdrVars, pfVars, hmVars >>

\* what the kernel walker leaves alone
notWalk == << g_Rules, coreVars, emVars, hqVars, rdVars, hdrVars, pfVars, hmVars >>

\* what the comparison of readers leaves alone
notRd == << g_Rules, coreVars, emVars, hqVars, walkVars, hdrVars, pfVars, hmVars >>

\* what the hashing of headers leaves alone
notHdr == << g_Rules, coreVars, emVars, hqVars, walkVars, rdVars, pfVars, hmVars >>

\* what the verification of proofs leaves alone
notPf == << g_Rules, coreVars, emVars, hqVars, walkVars, rdVars, hdrVars, hmVars >>

\* what the operations on the history of states leave alone
notHm == << g_Rules, coreVars, emVars, hqVars, walkVars, rdVars, hdrVars, pfVars >>

-----------------------------------------------------------------------------
\* Bounds of the model

\* Height is modelled HeightBits wide
HeightBits == 3

\* most elements (inputs + outputs + kernels) a transaction holds
MaxTxElements == 4

\* order of the group that stands for the curve
GroupOrder == 7

-----------------------------------------------------------------------------
\* Program constants

HeightGenesis == 1

MaxHeight == 2 ^ HeightBits - 1

\* number of entries of Rules::pForks (indices 0, 1, 2)
NumForks == 3

\* TxKernel::Subtype::Enum
SubtypeStd == 1

SubtypeAssetEmit == 2

SubtypeShieldedOutput == 3

SubtypeShieldedInput == 4

\* a null unique_ptr / an absent optional member
Null == <<>>

\* the encoding ECC::Point(Zero) with m_Y = 1, which is no curve point
InvalidPoint == -1

-----------------------------------------------------------------------------
\* Comparison framework

\* CMP_SIMPLE
CmpSimple(a, b) == IF a < b THEN -1 ELSE IF a > b THEN 1 ELSE 0

\* uintBig / byte-string comparison (lexicographic)
RECURSIVE CmpBytes(_, _)
CmpBytes(a, b) ==
    IF a = <<>> THEN (IF b = <<>> THEN 0 ELSE -1)
    ELSE IF b = <<>> THEN 1
    ELSE IF Head(a) < Head(b) THEN -1
    ELSE IF Head(a) > Head(b) THEN 1
    ELSE CmpBytes(Tail(a), Tail(b))

\* CMP_PTRS for members that are byte strings behind a pointer
CmpPtrs(a, b) ==
    IF a # Null
    THEN (IF b = Null THEN 1 ELSE CmpBytes(a, b))
    ELSE (IF b # Null THEN -1 ELSE 0)

\* first non-zero result of a chain of comparisons (the early returns of cmp)
RECURSIVE FirstNonZero(_)
FirstNonZero(s) ==
    IF s = <<>> THEN 0
    ELSE IF Head(s) # 0 THEN Head(s)
    ELSE FirstNonZero(Tail(s))

\* TxElement::cmp: by commitment
TxElementCmp(a, b) == CmpSimple(a.m_Commitment, b.m_Commitment)

\* Output::cmp
OutputCmp(a, b) ==
    FirstNonZero(<<
        TxElementCmp(a, b),
        CmpSimple(IF a.m_Coinbase THEN 1 ELSE 0, IF b.m_Coinbase THEN 1 ELSE 0),
        CmpSimple(IF a.m_RecoveryOnly THEN 1 ELSE 0, IF b.m_RecoveryOnly THEN 1 ELSE 0),
        CmpSimple(a.m_Incubation, b.m_Incubation),
        CmpSimple(a.m_AssetID, b.m_AssetID),
        CmpPtrs(a.m_pConfidential, b.m_pConfidential),
        CmpPtrs(a.m_pPublic, b.m_pPublic) >>)

\* TxBase::CmpInOut
CmpInOut(in, out) == TxElementCmp(in, out)

\* TxKernelStd::HashLock::cmp
HashLockCmp(a, b) == CmpBytes(a.m_Value, b.m_Value)

\* TxKernelStd::RelativeLock::cmp
RelativeLockCmp(a, b) ==
    FirstNonZero(<< CmpBytes(a.m_ID, b.m_ID), CmpSimple(a.m_LockHeight, b.m_LockHeight) >>)

\* CMP_MEMBER_PTR(m_pHashLock)
CmpHashLockPtr(a, b) ==
    IF a # Null
    THEN (IF b = Null THEN 1 ELSE HashLockCmp(a, b))
    ELSE (IF b # Null THEN -1 ELSE 0)

\* CMP_MEMBER_PTR(m_pRelativeLock)
CmpRelativeLockPtr(a, b) ==
    IF a # Null
    THEN (IF b = Null THEN 1 ELSE RelativeLockCmp(a, b))
    ELSE (IF b # Null THEN -1 ELSE 0)

RECURSIVE TxKernelCmp(_, _, _)
RECURSIVE CmpNested(_, _, _)

\* the loop of TxKernelStd::cmp_Subtype over the two nested lists
CmpNested(r, v0, v1) ==
    IF v0 = <<>> THEN (IF v1 # <<>> THEN -1 ELSE 0)
    ELSE IF v1 = <<>> THEN 1
    ELSE LET n == TxKernelCmp(r, Head(v0), Head(v1))
         IN  IF n # 0 THEN n ELSE CmpNested(r, Tail(v0), Tail(v1))

\* TxKernelStd::cmp_Subtype
TxKernelStdCmpSubtype(r, a, b) ==
    LET c1 == FirstNonZero(<<
                CmpSimple(a.m_Commitment, b.m_Commitment),
                CmpBytes(a.m_Signature, b.m_Signature),
                CmpSimple(a.m_Fee, b.m_Fee),
                CmpSimple(a.m_Height.m_Min, b.m_Height.m_Min),
                CmpSimple(a.m_Height.m_Max, b.m_Height.m_Max) >>)
    IN  IF c1 # 0 THEN c1
        ELSE LET c2 == CmpNested(r, a.m_vNested, b.m_vNested)
             IN  IF c2 # 0 THEN c2
                 ELSE FirstNonZero(<<
                        CmpHashLockPtr(a.m_pHashLock, b.m_pHashLock),
                        CmpRelativeLockPtr(a.m_pRelativeLock, b.m_pRelativeLock) >>)

\* virtual cmp_Subtype: TxKernelStd overrides it, the base returns 0
CmpSubtype(r, a, b) ==
    IF a.m_Subtype = SubtypeStd THEN TxKernelStdCmpSubtype(r, a, b) ELSE 0

\* TxKernel::cmp that looks at the subtype before the ID
TxKernelCmpSubtypeFirst(r, a, b) ==
    LET b2Me    == a.m_Height.m_Min >= r.pForks[2].m_Height
        b2Other == b.m_Height.m_Min >= r.pForks[2].m_Height
        nID     == CmpBytes(a.m_ID, b.m_ID)
        t       == CmpSimple(a.m_Subtype, b.m_Subtype)
    IN  IF b2Me /\ ~b2Other THEN 1
        ELSE IF ~b2Me /\ b2Other THEN -1
        ELSE IF t # 0 THEN t
        ELSE IF b2Me /\ nID # 0 THEN nID
        ELSE CmpSubtype(r, a, b)

\* TxKernel::cmp without the fork 2 split: the comparison used before fork 2
TxKernelCmpNoForkSplit(r, a, b) ==
    LET t == CmpSimple(a.m_Subtype, b.m_Subtype)
    IN  IF t # 0 THEN t ELSE CmpSubtype(r, a, b)

\* TxKernel::cmp under the rules r
TxKernelCmp(r, a, b) ==
    LET b2Me    == a.m_Height.m_Min >= r.pForks[2].m_Height
        b2Other == b.m_Height.m_Min >= r.pForks[2].m_Height
        nID     == CmpBytes(a.m_ID, b.m_ID)
        rest    == LET t == CmpSimple(a.m_Subtype, b.m_Subtype)
                   IN  IF t # 0 THEN t ELSE CmpSubtype(r, a, b)
    IN  IF b2Me
        THEN IF ~b2Other THEN 1
             ELSE IF nID # 0 THEN nID
             ELSE rest
        ELSE IF b2Other THEN -1
             ELSE rest

-----------------------------------------------------------------------------
\* Hashing and kernel identity

\* ECC::Hash::Processor ... >> hv : the value over the transcript t
HashOf(t) == <<Len(t)>> \o t

BoolBit(b) == IF b THEN 1 ELSE 0

\* TxKernelStd::HashLock::get_Image
HashLockImage(hl) == IF hl.m_IsImage THEN hl.m_Value ELSE HashOf(hl.m_Value)

\* TxKernel::HashBase
HashBase(k) == << k.m_Fee, k.m_Height.m_Min, k.m_Height.m_Max >>

RECURSIVE UpdateID(_)
RECURSIVE UpdateNested(_)

\* the nested kernels after HashNested has called UpdateID on each of them
UpdateNested(v) ==
    IF v = <<>> THEN <<>> ELSE <<UpdateID(Head(v))>> \o UpdateNested(Tail(v))

\* TxKernel::HashNested over already updated nested kernels
RECURSIVE HashNested(_)
HashNested(v) ==
    IF v = <<>> THEN << 1 >>
    ELSE << 0 >> \o Head(v).m_ID \o HashNested(Tail(v))

\* TxKernelStd::UpdateID
TxKernelStdUpdateID(k) ==
    LET nested == UpdateNested(k.m_vNested)
        nFlags == (IF k.m_pHashLock # Null THEN 1 ELSE 0)
                  + (IF k.m_pRelativeLock # Null THEN 2 ELSE 0)
                  + (IF k.m_CanEmbed THEN 4 ELSE 0)
        t ==   HashBase(k)
            \o << k.m_Commitment, 0, nFlags >>
            \o (IF k.m_pHashLock # Null THEN HashLockImage(k.m_pHashLock) ELSE <<>>)
            \o (IF k.m_pRelativeLock # Null
                THEN k.m_pRelativeLock.m_ID \o << k.m_pRelativeLock.m_LockHeight >>
                ELSE <<>>)
            \o HashNested(nested)
    IN  [k EXCEPT !.m_vNested = nested, !.m_ID = HashOf(t)]

\* virtual HashSelfForMsg
HashSelfForMsg(k) ==
    CASE k.m_Subtype = SubtypeAssetEmit ->
            << k.m_Commitment, k.m_AssetID, k.m_Value >>
      [] k.m_Subtype = SubtypeShieldedOutput ->
            << k.m_Txo.m_Commitment, k.m_Txo.m_Serial.m_SerialPub >>
            \o k.m_Txo.m_Serial.m_Signature
      [] k.m_Subtype = SubtypeShieldedInput ->
            << k.m_WindowEnd >>

\* virtual HashSelfForID
HashSelfForID(k) ==
    CASE k.m_Subtype = SubtypeAssetEmit -> k.m_Signature
      [] k.m_Subtype = SubtypeShieldedOutput -> k.m_Txo.m_RangeProof
      [] k.m_Subtype = SubtypeShieldedInput ->
            << k.m_SpendProof.m_Commitment >> \o k.m_SpendProof.m_Proof

\* TxKernelNonStd::UpdateMsg
TxKernelNonStdUpdateMsg(k) ==
    LET nested == UpdateNested(k.m_vNested)
        t ==   HashBase(k)
            \o << InvalidPoint, k.m_Subtype >>
            \o HashNested(nested)
            \o HashSelfForMsg(k)
    IN  [k EXCEPT !.m_vNested = nested, !.m_Msg = HashOf(t)]

\* TxKernelNonStd::MsgToID
TxKernelNonStdMsgToID(k) ==
    [k EXCEPT !.m_ID = HashOf(k.m_Msg \o HashSelfForID(k))]

\* TxKernelNonStd::UpdateID
TxKernelNonStdUpdateID(k) == TxKernelNonStdMsgToID(TxKernelNonStdUpdateMsg(k))

\* virtual UpdateID
UpdateID(k) ==
    IF k.m_Subtype = SubtypeStd THEN TxKernelStdUpdateID(k)
    ELSE TxKernelNonStdUpdateID(k)

\* ECC::Signature::Sign(msg, sk) with nonce n; the public key is G * sk = sk
SignatureSign(n, msg, sk) == << n, sk >> \o msg

\* ECC::Signature::IsValid(msg, pk)
SignatureIsValid(sig, msg, pk) == Len(sig) >= 2 /\ Tail(sig) = << pk >> \o msg

-----------------------------------------------------------------------------
\* Rules

\* the scalar parameters of Rules, in the order UpdateChecksum absorbs them
ParamsFork0 == << "Emission.Value0", "Emission.Drop0", "Emission.Drop1",
                  "Maturity.Coinbase", "Maturity.Std", "MaxBodySize", "FakePoW",
                  "AllowPublicUtxos", "DA.Target_s", "DA.MaxAhead_s", "DA.WindowWork",
                  "DA.WindowMedian0", "DA.WindowMedian1", "DA.Difficulty0",
                  "MaxRollback" >>

ParamsFork1 == << "DA.Damp.M", "DA.Damp.N" >>

ParamsFork2a == << "MaxKernelValidityDH", "Shielded.Enabled" >>

ParamsFork2b == << "Shielded.NMax", "Shielded.NMin", "Shielded.MaxWindowBacklog",
                   "CA.Enabled", "CA.Deposit" >>

SeqRange(s) == { s[i] : i \in 1..Len(s) }

ParamNames == SeqRange(ParamsFork0) \cup SeqRange(ParamsFork1)
              \cup SeqRange(ParamsFork2a) \cup SeqRange(ParamsFork2b)

\* the zeroed hash (ZeroObject)
ZeroHash == << 0 >>

\* Rules::Rules, with the heights of forks 1 and 2 given (tests set them)
RulesCtor(h1, h2) ==
    [ p      |-> [ n \in ParamNames |-> 1 ],
      pForks |-> [ i \in 0..(NumForks - 1) |->
                    [ m_Height |-> IF i = 0 THEN 0 ELSE IF i = 1 THEN h1 ELSE h2,
                      m_Hash   |-> ZeroHash ] ] ]

-----------------------------------------------------------------------------
\* Transaction vectors and normalization

TxSize == Len(m_vInputs) + Len(m_vOutputs) + Len(m_vKernels)

\* every arrangement of the elements of v
RECURSIVE Arrangements(_)
Arrangements(v) ==
    IF v = <<>> THEN { <<>> }
    ELSE UNION { { SubSeq(w, 1, i) \o << Head(v) >> \o SubSeq(w, i + 1, Len(w)) :
                     i \in 0..Len(w) } :
                 w \in Arrangements(Tail(v)) }

\* std::sort with operator< == (cmp < 0): the order of elements that compare
\* equal is unspecified, so every sorted arrangement of v is an outcome

\* std::sort(m_vInputs.begin(), m_vInputs.end())
SortInputs(v) ==
    { w \in Arrangements(v) :
        \A i, j \in 1..Len(w) : i < j => TxElementCmp(w[j], w[i]) >= 0 }

\* std::sort(m_vOutputs.begin(), m_vOutputs.end())
SortOutputs(v) ==
    { w \in Arrangements(v) :
        \A i, j \in 1..Len(w) : i < j => OutputCmp(w[j], w[i]) >= 0 }

\* std::sort(m_vKernels.begin(), m_vKernels.end()) under the rules r
SortKernels(r, v) ==
    { w \in Arrangements(v) :
        \A i, j \in 1..Len(w) : i < j => TxKernelCmp(r, w[j], w[i]) >= 0 }

\* SweepOutputs that stops at the first output instead of skipping the
\* outputs below the input
SweepOutputsNoSkip(inp, outs, i1) ==
    IF i1 > Len(outs) THEN [ i1 |-> i1, hit |-> FALSE ]
    ELSE IF CmpInOut(inp, outs[i1]) = 0
         THEN [ i1 |-> i1 + 1, hit |-> TRUE ]
         ELSE [ i1 |-> i1, hit |-> FALSE ]

\* the inner loop of NormalizeP for one input: where i1 ends, and whether an
\* output equal to the input was found (it is then at i1 - 1)
RECURSIVE SweepOutputs(_, _, _)
SweepOutputs(inp, outs, i1) ==
    IF i1 > Len(outs) THEN [ i1 |-> i1, hit |-> FALSE ]
    ELSE LET n == CmpInOut(inp, outs[i1])
         IN  IF n <= 0
             THEN (IF n = 0 THEN [ i1 |-> i1 + 1, hit |-> TRUE ]
                             ELSE [ i1 |-> i1, hit |-> FALSE ])
             ELSE SweepOutputs(inp, outs, i1 + 1)

\* the outer loop of NormalizeP: the indices of the inputs and outputs reset
RECURSIVE SweepInputs(_, _, _, _, _, _)
SweepInputs(ins, outs, i0, i1, delIn, delOut) ==
    IF i0 > Len(ins) THEN [ delIn |-> delIn, delOut |-> delOut ]
    ELSE LET r == SweepOutputs(ins[i0], outs, i1)
         IN  IF r.hit
             THEN SweepInputs(ins, outs, i0 + 1, r.i1,
                              delIn \cup {i0}, delOut \cup {r.i1 - 1})
             ELSE SweepInputs(ins, outs, i0 + 1, r.i1, delIn, delOut)

\* RebuildVectorWithoutNulls that keeps the entries after the first reset one
RebuildVectorFirstNullOnly(v, del, i) ==
    LET SetMin(S) == CHOOSE x \in S : \A y \in S : x <= y
    IN  IF del = {} THEN v
        ELSE SubSeq(v, 1, SetMin(del) - 1) \o SubSeq(v, SetMin(del) + 1, Len(v))

\* RebuildVectorWithoutNulls: v without the entries that were reset
RECURSIVE RebuildVectorWithoutNulls(_, _, _)
RebuildVectorWithoutNulls(v, del, i) ==
    IF i > Len(v) THEN <<>>
    ELSE (IF i \in del THEN <<>> ELSE << v[i] >>)
         \o RebuildVectorWithoutNulls(v, del, i + 1)

\* NormalizeP that forgets to count a cut-through pair
NormalizePMiscount(ins, outs) ==
    LET d    == SweepInputs(ins, outs, 1, 1, {}, {})
        nDel == Cardinality(d.delIn)
    IN  [ vInputs  |-> IF nDel # 0 THEN RebuildVectorWithoutNulls(ins, d.delIn, 1) ELSE ins,
          vOutputs |-> IF nDel # 0 THEN RebuildVectorWithoutNulls(outs, d.delOut, 1) ELSE outs,
          nDel     |-> IF nDel > 1 THEN nDel - 1 ELSE nDel ]

\* TxVectors::Perishable::NormalizeP on sorted vectors
NormalizeP(ins, outs) ==
    LET d    == SweepInputs(ins, outs, 1, 1, {}, {})
        nDel == Cardinality(d.delIn)
    IN  [ vInputs  |-> IF nDel # 0 THEN RebuildVectorWithoutNulls(ins, d.delIn, 1) ELSE ins,
          vOutputs |-> IF nDel # 0 THEN RebuildVectorWithoutNulls(outs, d.delOut, 1) ELSE outs,
          nDel     |-> nDel ]

\* the values written to the vectors of this model
Commitments == {1, 2, 3}

\* Input::m_Internal is bookkeeping that no comparison reads
Inputs == [ m_Commitment : {1, 2}, m_Internal : {0, 1} ]

MakeOutput(c, inc) ==
    [ m_Commitment |-> c, m_Coinbase |-> FALSE, m_RecoveryOnly |-> FALSE,
      m_Incubation |-> inc, m_AssetID |-> 0,
      m_pConfidential |-> << c, inc >>, m_pPublic |-> Null ]

Outputs == { MakeOutput(c, 0) : c \in Commitments } \cup { MakeOutput(1, 1) }

MakeKernelStd(fee, hMin, hMax, bEmbed, comm, sig, nested, hl, rl) ==
    [ m_Subtype |-> SubtypeStd, m_Fee |-> fee,
      m_Height |-> [ m_Min |-> hMin, m_Max |-> hMax ],
      m_CanEmbed |-> bEmbed, m_vNested |-> nested, m_ID |-> ZeroHash,
      m_Commitment |-> comm, m_Signature |-> sig,
      m_pHashLock |-> hl, m_pRelativeLock |-> rl ]

MakeKernelAssetEmit(fee, hMin, hMax, bEmbed, comm, sig, nested, aid, val) ==
    [ m_Subtype |-> SubtypeAssetEmit, m_Fee |-> fee,
      m_Height |-> [ m_Min |-> hMin, m_Max |-> hMax ],
      m_CanEmbed |-> bEmbed, m_vNested |-> nested, m_ID |-> ZeroHash,
      m_Msg |-> ZeroHash, m_Commitment |-> comm, m_Signature |-> sig,
      m_AssetID |-> aid, m_Value |-> val ]

\* two kernels below fork 2 that differ in m_CanEmbed only, one at fork 2
TxKernels ==
    { UpdateID(MakeKernelStd(0, 0, MaxHeight, e, 1, << 0 >>, <<>>, Null, Null)) :
        e \in BOOLEAN }
    \cup { UpdateID(MakeKernelStd(0, 2, MaxHeight, FALSE, 1, << 0 >>, <<>>, Null, Null)) }

\* the transactions merged into the one being built
SourceTxs ==
    { [ vInputs |-> i, vOutputs |-> o, vKernels |-> k ] :
        i \in {<<>>} \cup { << x >> : x \in { y \in Inputs : y.m_Internal = 0 } },
        o \in { << x >> : x \in Outputs },
        k \in {<<>>} \cup { << x >> : x \in { y \in TxKernels : ~y.m_CanEmbed } } }

SourceSize(src) == Len(src.vInputs) + Len(src.vOutputs) + Len(src.vKernels)

NormalizeRules == { RulesCtor(1, 2) }

TxInit ==
    /\ m_vInputs = <<>>
    /\ m_vOutputs = <<>>
    /\ m_vKernels = <<>>
    /\ txPrev = <<>>
    /\ nNormalized = 0
    /\ retNormalize = 0

\* the bookkeeping of a write: the vectors are no longer a Normalize result
Written ==
    /\ txPrev' = <<>>
    /\ nNormalized' = 0
    /\ retNormalize' = 0

\* TxVectors::Writer::Write(const Input&)
WriteInput(v) ==
    /\ TxSize < MaxTxElements
    /\ m_vInputs' = Append(m_vInputs, v)
    /\ Written
    /\ UNCHANGED << notTx, m_vOutputs, m_vKernels >>

\* TxVectors::Writer::Write(const Output&)
WriteOutput(v) ==
    /\ TxSize < MaxTxElements
    /\ m_vOutputs' = Append(m_vOutputs, v)
    /\ Written
    /\ UNCHANGED << notTx, m_vInputs, m_vKernels >>

\* TxVectors::Writer::Write(const TxKernel&)
WriteKernel(v) ==
    /\ TxSize < MaxTxElements
    /\ m_vKernels' = Append(m_vKernels, v)
    /\ Written
    /\ UNCHANGED << notTx, m_vInputs, m_vOutputs >>

\* MoveIntoVec
MoveIntoVec(trg, src) == IF trg = <<>> THEN src ELSE trg \o src

\* TxVectors::Full::MoveInto, seen from the target: the vectors of the
\* transaction src are moved to the end of this one's
MoveInto(src) ==
    /\ TxSize + SourceSize(src) <= MaxTxElements
    /\ m_vInputs' = MoveIntoVec(m_vInputs, src.vInputs)
    /\ m_vOutputs' = MoveIntoVec(m_vOutputs, src.vOutputs)
    /\ m_vKernels' = MoveIntoVec(m_vKernels, src.vKernels)
    /\ Written
    /\ UNCHANGED notTx

\* TxVectors::Full::Normalize: NormalizeE, then NormalizeP
Normalize ==
    /\ nNormalized < 2
    /\ \E ks \in SortKernels(g_Rules, m_vKernels),
          is \in SortInputs(m_vInputs),
          os \in SortOutputs(m_vOutputs) :
            LET r == NormalizeP(is, os)
            IN  /\ m_vKernels' = ks
                /\ m_vInputs' = r.vInputs
                /\ m_vOutputs' = r.vOutputs
                /\ retNormalize' = r.nDel
    /\ txPrev' = << m_vInputs, m_vOutputs, m_vKernels >>
    /\ nNormalized' = nNormalized + 1
    /\ UNCHANGED notTx

NextNormalize ==
    \/ \E v \in Inputs : WriteInput(v)
    \/ \E v \in Outputs : WriteOutput(v)
    \/ \E v \in TxKernels : WriteKernel(v)
    \/ \E src \in SourceTxs : MoveInto(src)
    \/ Normalize

\* no kernels are being compared
CmpIdle ==
    /\ krnA = Null
    /\ krnB = Null
    /\ cmpRes = <<>>

\* no kernel is being validated
ValidIdle ==
    /\ vKrn = Null
    /\ vRes = Null

\* no output is being handled
OutIdle ==
    /\ outp = Null
    /\ outRes = Null

\* the rules are as constructed: no UpdateChecksum, no alteration
RulesIdle ==
    /\ csRes = Null
    /\ rulesRef = Null
    /\ nAltered = 0

EmIdle ==
    /\ emq = Null
    /\ emLoop = Null

HqIdle ==
    /\ hrq = Null
    /\ matq = Null

WalkIdle ==
    /\ wKrns = Null
    /\ wRes = Null

RdIdle ==
    /\ rdThis = Null
    /\ rdOther = Null
    /\ rdRes = Null

HdrIdle ==
    /\ hdrA = Null
    /\ hdrB = Null
    /\ hdrRes = Null

PfIdle ==
    /\ pfThis = Null
    /\ pfProof = Null
    /\ pfRes = Null

HmIdle ==
    /\ m_Map = Null
    /\ hmAdded = Null
    /\ hmRes = Null

\* none of the later computations has started
LaterIdle ==
    EmIdle /\ HqIdle /\ WalkIdle /\ RdIdle /\ HdrIdle /\ PfIdle /\ HmIdle

\* the vectors, kernels, output and rules bookkeeping are as constructed
CoreIdle == TxInit /\ CmpIdle /\ ValidIdle /\ OutIdle /\ RulesIdle

InitNormalize ==
    /\ g_Rules \in NormalizeRules
    /\ TxInit
    /\ CmpIdle
    /\ ValidIdle
    /\ OutIdle
    /\ RulesIdle
    /\ LaterIdle

SpecNormalize == InitNormalize /\ [][NextNormalize]_vars

-----------------------------------------------------------------------------
\* Curve points: the group of integers modulo GroupOrder, generator G = 1

PointAdd(a, b) == (a + b) % GroupOrder

PointNeg(a) == (GroupOrder - a) % GroupOrder

\* ECC::Point::Native::ImportNnz: the encoding is a curve point other than zero
ImportNnz(c) == c \in 1..(GroupOrder - 1)

\* ECC::Point::Native::Import: the encoding is a curve point or zero
Import(c) == c \in 0..(GroupOrder - 1)

\* the generator H of values, and H_asset of SwitchCommitment::HGenFromAID
HGen(aid) == IF aid = 0 THEN 0 ELSE 1 + ((aid + 1) % (GroupOrder - 1))

HGenBeam == 2

\* ECC::Tag::AddValue(exc, &hGen, val) with a custom generator
TagAddValue(exc, hGen, val) == (exc + hGen * val) % GroupOrder

\* the 2-key signature of TxKernelAssetEmit over msg for the keys pk0, pk1
SignatureIsValidG2(sig, msg, pk0, pk1) ==
    Len(sig) >= 3 /\ Tail(sig) = << pk0, pk1 >> \o msg

-----------------------------------------------------------------------------
\* Kernel validation

RECURSIVE KernelIsValid(_, _, _, _, _)
RECURSIVE ValidateNested(_, _, _, _, _, _)

\* the loop of IsValidBase over the nested kernels of parent: v is what is
\* left of them, p0Krn the previous one, excNested the sum so far
ValidateNested(r, hScheme, parent, v, p0Krn, excNested) ==
    IF v = <<>> THEN [ ok |-> TRUE, exc |-> excNested ]
    ELSE IF /\ hScheme < r.pForks[2].m_Height
            /\ p0Krn # Null
            /\ TxKernelCmp(r, p0Krn, Head(v)) > 0
         THEN [ ok |-> FALSE, exc |-> excNested ]
         ELSE LET res == KernelIsValid(r, Head(v), hScheme, excNested, parent)
              IN  IF ~res.ok THEN res
                  ELSE ValidateNested(r, hScheme, parent, Tail(v), Head(v), res.exc)

\* TxKernel::IsValidBase with the nested-range test the other way round:
\* the nested kernel's range must lie inside the parent's
IsValidBaseChildInParent(r, k, hScheme, exc, pParent, pComm) ==
    IF hScheme < r.pForks[1].m_Height /\ k.m_CanEmbed
    THEN [ ok |-> FALSE, exc |-> exc, comm |-> pComm ]
    ELSE IF pParent # Null /\ ~k.m_CanEmbed
    THEN [ ok |-> FALSE, exc |-> exc, comm |-> pComm ]
    ELSE IF /\ pParent # Null
            /\ \/ k.m_Height.m_Min < pParent.m_Height.m_Min
               \/ k.m_Height.m_Max > pParent.m_Height.m_Max
    THEN [ ok |-> FALSE, exc |-> exc, comm |-> pComm ]
    ELSE IF /\ pParent = Null
            /\ hScheme >= r.pForks[2].m_Height
            /\ k.m_Height.m_Min < r.pForks[2].m_Height
    THEN [ ok |-> FALSE, exc |-> exc, comm |-> pComm ]
    ELSE IF k.m_vNested = <<>>
    THEN [ ok |-> TRUE, exc |-> exc, comm |-> pComm ]
    ELSE LET n == ValidateNested(r, hScheme, k, k.m_vNested, Null, 0)
         IN  IF ~n.ok THEN [ ok |-> FALSE, exc |-> exc, comm |-> pComm ]
             ELSE IF hScheme < r.pForks[2].m_Height
             THEN IF pComm = Null
                  THEN [ ok |-> FALSE, exc |-> exc, comm |-> pComm ]
                  ELSE [ ok |-> TRUE, exc |-> exc,
                         comm |-> << PointAdd(pComm[1], PointNeg(n.exc)) >> ]
             ELSE [ ok |-> TRUE, exc |-> PointAdd(exc, n.exc), comm |-> pComm ]

\* TxKernel::IsValidBase. pParent is Null or the parent kernel; pComm is Null
\* or << the point the caller passes by pointer >>. Returns whether the
\* kernel passed, and exc and *pComm as they are left
IsValidBase(r, k, hScheme, exc, pParent, pComm) ==
    IF hScheme < r.pForks[1].m_Height /\ k.m_CanEmbed
    THEN [ ok |-> FALSE, exc |-> exc, comm |-> pComm ]
    ELSE IF pParent # Null /\ ~k.m_CanEmbed
    THEN [ ok |-> FALSE, exc |-> exc, comm |-> pComm ]
    ELSE IF /\ pParent # Null
            /\ \/ k.m_Height.m_Min > pParent.m_Height.m_Min
               \/ k.m_Height.m_Max < pParent.m_Height.m_Max
    THEN [ ok |-> FALSE, exc |-> exc, comm |-> pComm ]
    ELSE IF /\ pParent = Null
            /\ hScheme >= r.pForks[2].m_Height
            /\ k.m_Height.m_Min < r.pForks[2].m_Height
    THEN [ ok |-> FALSE, exc |-> exc, comm |-> pComm ]
    ELSE IF k.m_vNested = <<>>
    THEN [ ok |-> TRUE, exc |-> exc, comm |-> pComm ]
    ELSE LET n == ValidateNested(r, hScheme, k, k.m_vNested, Null, 0)
         IN  IF ~n.ok THEN [ ok |-> FALSE, exc |-> exc, comm |-> pComm ]
             ELSE IF hScheme < r.pForks[2].m_Height
             THEN IF pComm = Null
                  THEN [ ok |-> FALSE, exc |-> exc, comm |-> pComm ]
                  ELSE [ ok |-> TRUE, exc |-> exc,
                         comm |-> << PointAdd(pComm[1], PointNeg(n.exc)) >> ]
             ELSE [ ok |-> TRUE, exc |-> PointAdd(exc, n.exc), comm |-> pComm ]

\* TxKernelStd::IsValid without the fork 1 gate on the relative lock
TxKernelStdIsValidNoLockGate(r, k, hScheme, exc, pParent) ==
    IF ~ImportNnz(k.m_Commitment)
    THEN [ ok |-> FALSE, exc |-> exc ]
    ELSE LET exc1 == PointAdd(exc, k.m_Commitment)
             b    == IsValidBase(r, k, hScheme, exc1, pParent, << k.m_Commitment >>)
         IN  IF ~b.ok THEN [ ok |-> FALSE, exc |-> b.exc ]
             ELSE [ ok |-> SignatureIsValid(k.m_Signature, k.m_ID, b.comm[1]),
                    exc |-> b.exc ]

\* TxKernelStd::IsValid
TxKernelStdIsValid(r, k, hScheme, exc, pParent) ==
    IF hScheme < r.pForks[1].m_Height /\ k.m_pRelativeLock # Null
    THEN [ ok |-> FALSE, exc |-> exc ]
    ELSE IF ~ImportNnz(k.m_Commitment)
    THEN [ ok |-> FALSE, exc |-> exc ]
    ELSE LET exc1 == PointAdd(exc, k.m_Commitment)
             b    == IsValidBase(r, k, hScheme, exc1, pParent, << k.m_Commitment >>)
         IN  IF ~b.ok THEN [ ok |-> FALSE, exc |-> b.exc ]
             ELSE [ ok |-> SignatureIsValid(k.m_Signature, k.m_ID, b.comm[1]),
                    exc |-> b.exc ]

\* an AssetEmit validation that does not negate the asset generator
TxKernelAssetEmitIsValidNoNegation(r, k, hScheme, exc, pParent) ==
    LET b == IsValidBase(r, k, hScheme, exc, pParent, Null)
    IN  IF ~b.ok THEN [ ok |-> FALSE, exc |-> b.exc ]
        ELSE IF hScheme < r.pForks[2].m_Height \/ r.p["CA.Enabled"] = 0
        THEN [ ok |-> FALSE, exc |-> b.exc ]
        ELSE IF k.m_Value = 0 \/ k.m_AssetID = 0
        THEN [ ok |-> FALSE, exc |-> b.exc ]
        ELSE IF ~ImportNnz(k.m_Commitment)
        THEN [ ok |-> FALSE, exc |-> b.exc ]
        ELSE LET exc1 == PointAdd(b.exc, k.m_Commitment)
             IN  IF ~Import(k.m_AssetID)
                 THEN [ ok |-> FALSE, exc |-> exc1 ]
                 ELSE IF ~SignatureIsValidG2(k.m_Signature, k.m_Msg,
                                             k.m_Commitment, k.m_AssetID)
                 THEN [ ok |-> FALSE, exc |-> exc1 ]
                 ELSE LET hNeg == HGen(k.m_AssetID)
                          hDep == IF r.p["CA.Deposit"] # 0
                                  THEN PointAdd(hNeg, HGenBeam) ELSE hNeg
                          val  == IF k.m_Value > 0 THEN k.m_Value ELSE -k.m_Value
                          hGen == IF k.m_Value > 0 THEN hDep ELSE PointNeg(hDep)
                      IN  [ ok |-> TRUE, exc |-> TagAddValue(exc1, hGen, val) ]

\* TxKernelAssetEmit::IsValid
TxKernelAssetEmitIsValid(r, k, hScheme, exc, pParent) ==
    LET b == IsValidBase(r, k, hScheme, exc, pParent, Null)
    IN  IF ~b.ok THEN [ ok |-> FALSE, exc |-> b.exc ]
        ELSE IF hScheme < r.pForks[2].m_Height \/ r.p["CA.Enabled"] = 0
        THEN [ ok |-> FALSE, exc |-> b.exc ]
        ELSE IF k.m_Value = 0 \/ k.m_AssetID = 0
        THEN [ ok |-> FALSE, exc |-> b.exc ]
        ELSE IF ~ImportNnz(k.m_Commitment)
        THEN [ ok |-> FALSE, exc |-> b.exc ]
        ELSE LET exc1 == PointAdd(b.exc, k.m_Commitment)
             IN  IF ~Import(k.m_AssetID)
                 THEN [ ok |-> FALSE, exc |-> exc1 ]
                 ELSE IF ~SignatureIsValidG2(k.m_Signature, k.m_Msg,
                                             k.m_Commitment, k.m_AssetID)
                 THEN [ ok |-> FALSE, exc |-> exc1 ]
                 ELSE LET hNeg == PointNeg(HGen(k.m_AssetID))
                          hDep == IF r.p["CA.Deposit"] # 0
                                  THEN PointAdd(hNeg, HGenBeam) ELSE hNeg
                          val  == IF k.m_Value > 0 THEN k.m_Value ELSE -k.m_Value
                          hGen == IF k.m_Value > 0 THEN hDep ELSE PointNeg(hDep)
                      IN  [ ok |-> TRUE, exc |-> TagAddValue(exc1, hGen, val) ]

\* TxKernelShieldedOutput::IsValid
TxKernelShieldedOutputIsValid(r, k, hScheme, exc, pParent) ==
    LET b == IsValidBase(r, k, hScheme, exc, pParent, Null)
    IN  IF ~b.ok THEN [ ok |-> FALSE, exc |-> b.exc ]
        ELSE IF hScheme < r.pForks[2].m_Height \/ r.p["Shielded.Enabled"] = 0
        THEN [ ok |-> FALSE, exc |-> b.exc ]
        ELSE IF ~ImportNnz(k.m_Txo.m_Commitment)
        THEN [ ok |-> FALSE, exc |-> b.exc ]
        ELSE LET exc1 == PointAdd(b.exc, k.m_Txo.m_Commitment)
             IN  IF ~SignatureIsValid(k.m_Txo.m_Serial.m_Signature, <<>>,
                                      k.m_Txo.m_Serial.m_SerialPub)
                 THEN [ ok |-> FALSE, exc |-> exc1 ]
                 ELSE [ ok  |-> k.m_Txo.m_RangeProof
                                  = << k.m_Txo.m_Commitment >> \o k.m_Msg,
                        exc |-> exc1 ]

\* TxKernelShieldedInput::IsValid
TxKernelShieldedInputIsValid(r, k, hScheme, exc, pParent) ==
    LET b == IsValidBase(r, k, hScheme, exc, pParent, Null)
    IN  IF ~b.ok THEN [ ok |-> FALSE, exc |-> b.exc ]
        ELSE IF hScheme < r.pForks[2].m_Height \/ r.p["Shielded.Enabled"] = 0
        THEN [ ok |-> FALSE, exc |-> b.exc ]
        ELSE LET ptNeg == IF Import(k.m_SpendProof.m_Commitment)
                          THEN PointNeg(k.m_SpendProof.m_Commitment)
                          ELSE InvalidPoint
             IN  IF ~ImportNnz(ptNeg)
                 THEN [ ok |-> FALSE, exc |-> b.exc ]
                 ELSE [ ok |-> TRUE, exc |-> PointAdd(b.exc, ptNeg) ]

\* virtual TxKernel::IsValid(hScheme, exc, pParent)
KernelIsValid(r, k, hScheme, exc, pParent) ==
    CASE k.m_Subtype = SubtypeStd -> TxKernelStdIsValid(r, k, hScheme, exc, pParent)
      [] k.m_Subtype = SubtypeAssetEmit ->
            TxKernelAssetEmitIsValid(r, k, hScheme, exc, pParent)
      [] k.m_Subtype = SubtypeShieldedOutput ->
            TxKernelShieldedOutputIsValid(r, k, hScheme, exc, pParent)
      [] k.m_Subtype = SubtypeShieldedInput ->
            TxKernelShieldedInputIsValid(r, k, hScheme, exc, pParent)

-----------------------------------------------------------------------------
\* Comparison of two kernels

\* values of m_Internal.m_ID left by an earlier UpdateID or a copy
StoredIDs == { ZeroHash, << 1, 7 >> }

CmpHeights == { 1, 2, MaxHeight }

CmpKernels ==
    { [ k EXCEPT !.m_ID = id ] :
        id \in StoredIDs,
        k \in { MakeKernelStd(0, h, MaxHeight, FALSE, c, sig, <<>>, Null, Null) :
                    h \in CmpHeights, c \in {1, 2}, sig \in { << 0 >>, << 1 >> } }
               \cup
               { MakeKernelAssetEmit(0, h, MaxHeight, FALSE, 1, << 0 >>, <<>>, 1, 1) :
                    h \in CmpHeights }
               \cup
               { MakeKernelStd(0, 2, MaxHeight, FALSE, 1, << 0 >>, n, hl, rl) :
                    n \in { <<>>, << MakeKernelStd(0, 1, MaxHeight, TRUE, 2, << 0 >>,
                                                   <<>>, Null, Null) >> },
                    hl \in { Null, [ m_Value |-> << 5 >>, m_IsImage |-> FALSE ] },
                    rl \in { Null, [ m_ID |-> ZeroHash, m_LockHeight |-> 1 ] } } }

CmpRules == { RulesCtor(1, 2), RulesCtor(1, MaxHeight) }

\* TxKernelStd::Sign with the blinding factor sk; n is the signature's nonce
TxKernelStdSign(k, sk, n) ==
    LET k1 == UpdateID([ k EXCEPT !.m_Commitment = sk ])
    IN  [ k1 EXCEPT !.m_Signature = SignatureSign(n, k1.m_ID, sk) ]

InitCmp ==
    /\ g_Rules \in CmpRules
    /\ krnA \in CmpKernels
    /\ krnB \in CmpKernels
    /\ cmpRes = <<>>
    /\ TxInit
    /\ ValidIdle
    /\ OutIdle
    /\ RulesIdle
    /\ LaterIdle

\* krnA.UpdateID()
UpdateIDA ==
    /\ krnA' = UpdateID(krnA)
    /\ cmpRes' = <<>>
    /\ UNCHANGED << notCmp, krnB >>

\* krnB.UpdateID()
UpdateIDB ==
    /\ krnB' = UpdateID(krnB)
    /\ cmpRes' = <<>>
    /\ UNCHANGED << notCmp, krnA >>

\* krnA.Sign(sk)
SignA(sk, n) ==
    /\ krnA.m_Subtype = SubtypeStd
    /\ krnA' = TxKernelStdSign(krnA, sk, n)
    /\ cmpRes' = <<>>
    /\ UNCHANGED << notCmp, krnB >>

\* krnB.Sign(sk)
SignB(sk, n) ==
    /\ krnB.m_Subtype = SubtypeStd
    /\ krnB' = TxKernelStdSign(krnB, sk, n)
    /\ cmpRes' = <<>>
    /\ UNCHANGED << notCmp, krnA >>

\* krnA.cmp(krnB) and krnB.cmp(krnA)
Cmp ==
    /\ cmpRes' = << TxKernelCmp(g_Rules, krnA, krnB), TxKernelCmp(g_Rules, krnB, krnA) >>
    /\ UNCHANGED << notCmp, krnA, krnB >>

NextCmp ==
    \/ UpdateIDA
    \/ UpdateIDB
    \/ \E n \in {0, 1} : SignA(1, n)
    \/ \E n \in {0, 1} : SignB(1, n)
    \/ Cmp

SpecCmp == InitCmp /\ [][NextCmp]_vars

-----------------------------------------------------------------------------
\* Validation of a kernel

\* TxKernelAssetEmit::Sign with the keys sk, skAsset; n is the nonce
TxKernelAssetEmitSign(k, sk, skAsset, n) ==
    LET k1 == TxKernelNonStdUpdateMsg([ k EXCEPT !.m_Commitment = sk ])
        k2 == [ k1 EXCEPT !.m_Signature = << n, sk, skAsset >> \o k1.m_Msg ]
    IN  TxKernelNonStdMsgToID(k2)

HeightRanges == { hr \in (1..3) \X (1..3) : hr[1] <= hr[2] }

SchemeHeights == 0..3

\* a standard kernel to be nested, signed for its commitment or not
NestedStd(hr, bEmbed, comm, bSigned) ==
    LET k == UpdateID(MakeKernelStd(0, hr[1], hr[2], bEmbed, comm, << 0 >>,
                                    <<>>, Null, Null))
    IN  IF bSigned
        THEN [ k EXCEPT !.m_Signature = SignatureSign(0, k.m_ID, comm) ]
        ELSE k

\* an asset emission kernel to be nested
NestedAssetEmit(hr) ==
    TxKernelAssetEmitSign(
        MakeKernelAssetEmit(0, hr[1], hr[2], TRUE, 3, << 0 >>, <<>>, 1, 1), 3, 1, 0)

NestedLists ==
    { <<>> }
    \cup { << NestedStd(hr, e, 2, sg) >> :
             hr \in HeightRanges, e \in BOOLEAN, sg \in BOOLEAN }
    \cup { << NestedAssetEmit(hr) >> : hr \in HeightRanges }
    \cup { << NestedStd(<< 1, 3 >>, TRUE, c1, TRUE), NestedStd(<< 1, 3 >>, TRUE, c2, TRUE) >> :
             c1 \in {2, 3}, c2 \in {2, 3} }

RECURSIVE SumCommitments(_)
SumCommitments(v) ==
    IF v = <<>> THEN 0 ELSE PointAdd(Head(v).m_Commitment, SumCommitments(Tail(v)))

\* a standard kernel as a wallet or a peer hands it over: its ID up to date,
\* its signature garbage, made for its commitment, or made for its commitment
\* less the nested ones
ValidationKernels ==
    { LET k == UpdateID(MakeKernelStd(0, hr[1], hr[2], e, c, << 0 >>, n, Null, rl))
      IN  [ k EXCEPT !.m_Signature =
              CASE sg = 0 -> << 0 >>
                [] sg = 1 -> SignatureSign(0, k.m_ID, c)
                [] sg = 2 -> SignatureSign(0, k.m_ID,
                                           PointAdd(c, PointNeg(SumCommitments(n)))) ] :
        hr \in HeightRanges, e \in BOOLEAN, c \in {0, 1}, n \in NestedLists,
        rl \in { Null, [ m_ID |-> ZeroHash, m_LockHeight |-> 1 ] },
        sg \in 0..2 }

ValidationRules == { RulesCtor(1, 2), RulesCtor(2, 3), RulesCtor(2, MaxHeight) }

InitValid ==
    /\ g_Rules \in ValidationRules
    /\ vKrn \in ValidationKernels
    /\ vRes = Null
    /\ TxInit
    /\ CmpIdle
    /\ OutIdle
    /\ RulesIdle
    /\ LaterIdle

\* vKrn.IsValid(hScheme, exc) on a zero exc, no parent
Validate(hScheme) ==
    /\ vRes' = [ h |-> hScheme ] @@ KernelIsValid(g_Rules, vKrn, hScheme, 0, Null)
    /\ UNCHANGED << notValid, vKrn >>

\* vKrn.Sign(sk)
SignKernel(sk, n) ==
    /\ vKrn' = TxKernelStdSign(vKrn, sk, n)
    /\ vRes' = Null
    /\ UNCHANGED notValid

NextValid ==
    \/ \E h \in SchemeHeights : Validate(h)
    \/ SignKernel(1, 0)

SpecValid == InitValid /\ [][NextValid]_vars

-----------------------------------------------------------------------------
\* Outputs

\* the generator SwitchCommitment::AddValue multiplies the value by
SwitchHGen(aid) == IF aid = 0 THEN HGenBeam ELSE HGen(aid)

\* Key::IKdf::DeriveKey of the hash of the key identifier kidv
DeriveKey(kidv) == 1 + ((kidv.m_Idx + kidv.m_Value) % (GroupOrder - 1))

\* SwitchCommitment::get_sk1: the scalar the oracle gives for comm0 and J * sk0
SwitchSk1(comm0, sk0J) == 1 + ((comm0 + sk0J) % (GroupOrder - 1))

\* SwitchCommitment::CreateInternal with bComm: the blinding factor and the
\* commitment (J is the generator 3)
SwitchCommitmentCreate(aid, kidv) ==
    LET sk0   == DeriveKey(kidv)
        comm0 == TagAddValue(sk0, SwitchHGen(aid), kidv.m_Value)
        sk1   == SwitchSk1(comm0, (3 * sk0) % GroupOrder)
    IN  [ sk |-> (sk0 + sk1) % GroupOrder, comm |-> PointAdd(comm0, sk1) ]

\* Output::Prepare: what the oracle has absorbed
OutputPrepare(r, o, hScheme) ==
    << o.m_Incubation >>
    \o (IF hScheme >= r.pForks[1].m_Height THEN << o.m_Commitment >> ELSE <<>>)

\* ECC::RangeProof::Confidential::Create over the commitment, the oracle and
\* the asset generator
ConfidentialCreate(comm, oracle, aid) == << comm, aid >> \o oracle

\* ECC::RangeProof::Confidential::IsValid
ConfidentialIsValid(proof, comm, oracle, aid) == proof = << comm, aid >> \o oracle

\* ECC::RangeProof::Public::Create: m_Value first, then the signature
PublicCreate(value, comm, oracle) == << value, comm >> \o oracle

\* ECC::RangeProof::Public::IsValid
PublicIsValid(proof, comm, oracle, aid) ==
    Len(proof) >= 2 /\ Tail(proof) = << comm >> \o oracle

\* Output::IsValid without the test that a confidential output has no
\* public proof
OutputIsValidBothProofs(r, o, hScheme) ==
    IF ~Import(o.m_Commitment) THEN FALSE
    ELSE IF o.m_pConfidential # Null
    THEN IF o.m_Coinbase THEN FALSE
         ELSE ConfidentialIsValid(o.m_pConfidential, o.m_Commitment,
                                  OutputPrepare(r, o, hScheme), o.m_AssetID)
    ELSE IF o.m_pPublic = Null THEN FALSE
    ELSE IF ~(r.p["AllowPublicUtxos"] # 0 \/ o.m_Coinbase) THEN FALSE
    ELSE PublicIsValid(o.m_pPublic, o.m_Commitment,
                       OutputPrepare(r, o, hScheme), o.m_AssetID)

\* Output::IsValid
OutputIsValid(r, o, hScheme) ==
    IF ~Import(o.m_Commitment) THEN FALSE
    ELSE IF o.m_pConfidential # Null
    THEN IF o.m_Coinbase THEN FALSE
         ELSE IF o.m_pPublic # Null THEN FALSE
         ELSE ConfidentialIsValid(o.m_pConfidential, o.m_Commitment,
                                  OutputPrepare(r, o, hScheme), o.m_AssetID)
    ELSE IF o.m_pPublic = Null THEN FALSE
    ELSE IF ~(r.p["AllowPublicUtxos"] # 0 \/ o.m_Coinbase) THEN FALSE
    ELSE PublicIsValid(o.m_pPublic, o.m_Commitment,
                       OutputPrepare(r, o, hScheme), o.m_AssetID)

\* Output::Create on the output o
OutputCreate(r, o, hScheme, kidv, bPublic) ==
    LET sc == SwitchCommitmentCreate(o.m_AssetID, kidv)
        o1 == [ o EXCEPT !.m_Commitment = sc.comm ]
        oracle == OutputPrepare(r, o1, hScheme)
    IN  IF bPublic \/ o.m_Coinbase
        THEN [ o1 EXCEPT !.m_pPublic = PublicCreate(kidv.m_Value, sc.comm, oracle) ]
        ELSE [ o1 EXCEPT !.m_pConfidential =
                            ConfidentialCreate(sc.comm, oracle, o.m_AssetID) ]

\* the range proofs an output received from a peer may carry: none, garbage,
\* or one made for the output under the scheme of height 0 or of height 2
ProofsOf(r, o, bPublic) ==
    { Null, << 0, 0 >> }
    \cup { IF bPublic
           THEN PublicCreate(1, o.m_Commitment, OutputPrepare(r, o, h))
           ELSE ConfidentialCreate(o.m_Commitment, OutputPrepare(r, o, h), o.m_AssetID) :
           h \in {0, 2} }

\* outputs as decoded from a peer, and fresh ones (no proof yet)
DecodedOutputs(r) ==
    UNION { { [ o EXCEPT !.m_pConfidential = pc, !.m_pPublic = pp ] :
                pc \in ProofsOf(r, o, FALSE), pp \in ProofsOf(r, o, TRUE) } :
            o \in { [ m_Commitment |-> c, m_Coinbase |-> cb, m_RecoveryOnly |-> FALSE,
                      m_Incubation |-> 0, m_AssetID |-> 0,
                      m_pConfidential |-> Null, m_pPublic |-> Null ] :
                    c \in { InvalidPoint, 0, 1 }, cb \in BOOLEAN } }

\* r with the parameter name set to val
RulesWith(r, name, val) == [ r EXCEPT !.p[name] = val ]

OutputRules ==
    { RulesWith(r, "AllowPublicUtxos", a) :
        r \in { RulesCtor(1, MaxHeight), RulesCtor(2, MaxHeight) }, a \in {0, 1} }

KeyIDVs == [ m_Idx : {1}, m_Value : {1, 2} ]

InitOut ==
    /\ g_Rules \in OutputRules
    /\ outp \in DecodedOutputs(g_Rules)
    /\ outRes = Null
    /\ TxInit
    /\ CmpIdle
    /\ ValidIdle
    /\ RulesIdle
    /\ LaterIdle

\* outp.Create(hScheme, sk, coinKdf, kidv, tagKdf, bPublic)
CreateOutput(hScheme, kidv, bPublic) ==
    /\ outp' = OutputCreate(g_Rules, outp, hScheme, kidv, bPublic)
    /\ outRes' = Null
    /\ UNCHANGED notOut

\* outp.IsValid(hScheme, comm)
ValidateOutput(hScheme) ==
    /\ outRes' = [ h |-> hScheme, ok |-> OutputIsValid(g_Rules, outp, hScheme) ]
    /\ UNCHANGED << notOut, outp >>

NextOut ==
    \/ \E h \in {0, 2}, kidv \in KeyIDVs, b \in BOOLEAN : CreateOutput(h, kidv, b)
    \/ \E h \in 0..2 : ValidateOutput(h)

SpecOut == InitOut /\ [][NextOut]_vars

-----------------------------------------------------------------------------
\* The checksum of the rules

\* the values of the parameters names of the rules r, in order
ParamValues(r, names) == [ i \in 1..Len(names) |-> r.p[names[i]] ]

\* Rules::IsForkHeightsConsistent that only tests the height of fork 0
IsForkHeightsConsistentGenesisOnly(r) ==
    r.pForks[0].m_Height = HeightGenesis - 1

\* Rules::IsForkHeightsConsistent
IsForkHeightsConsistent(r) ==
    /\ r.pForks[0].m_Height = HeightGenesis - 1
    /\ \A i \in 1..(NumForks - 1) :
          ~(r.pForks[i].m_Height < r.pForks[i - 1].m_Height)

\* what the oracle has absorbed when pForks[0].m_Hash is taken: the context
\* checksum, Prehistoric, TreasuryChecksum, HeightGenesis, Coin, Emission ..
\* AllowPublicUtxos, false, true, DA.Target_s .. MaxRollback, 720, PoW K, N,
\* nBits, 14, "masternet"
TranscriptFork0(r) ==
    << 0, 0, 0, HeightGenesis, 100000000 >>
    \o ParamValues(r, SubSeq(ParamsFork0, 1, 8))
    \o << 0, 1 >>
    \o ParamValues(r, SubSeq(ParamsFork0, 9, Len(ParamsFork0)))
    \o << 720, 5, 150, 64, 14, 100 >>

\* what the oracle absorbs between pForks[0].m_Hash and pForks[1].m_Hash:
\* "fork1", pForks[1].m_Height, DA.Damp.M, DA.Damp.N
TranscriptFork1(r) ==
    << 101, r.pForks[1].m_Height >> \o ParamValues(r, ParamsFork1)

\* the absorption of fork 2 without CA.Deposit
TranscriptFork2NoDeposit(r) ==
    << 102, r.pForks[2].m_Height >> \o ParamValues(r, ParamsFork2a) \o << 1 >>
    \o ParamValues(r, SubSeq(ParamsFork2b, 1, Len(ParamsFork2b) - 1))

\* what the oracle absorbs between pForks[1].m_Hash and pForks[2].m_Hash:
\* "fork2", pForks[2].m_Height, MaxKernelValidityDH, Shielded.Enabled, 1,
\* Shielded.NMax, NMin, MaxWindowBacklog, CA.Enabled, CA.Deposit
TranscriptFork2(r) ==
    << 102, r.pForks[2].m_Height >> \o ParamValues(r, ParamsFork2a) \o << 1 >>
    \o ParamValues(r, ParamsFork2b)

\* ECC::Oracle >> hash: the hash of all that was absorbed, which the oracle
\* then absorbs itself
OracleOut(t) == [ hv |-> HashOf(t), t |-> t \o HashOf(t) ]

\* the three hashes Rules::UpdateChecksum computes, one oracle throughout
ChecksumHashes(r) ==
    LET o0 == OracleOut(TranscriptFork0(r))
        o1 == OracleOut(o0.t \o TranscriptFork1(r))
        o2 == OracleOut(o1.t \o TranscriptFork2(r))
    IN  << o0.hv, o1.hv, o2.hv >>

\* the rules r after Rules::UpdateChecksum returned
RulesUpdateChecksum(r) ==
    [ r EXCEPT !.pForks = [ i \in 0..(NumForks - 1) |->
                             [ r.pForks[i] EXCEPT !.m_Hash = ChecksumHashes(r)[i + 1] ] ] ]

MaxAlterations == 2

\* the values a test gives a parameter, and a fork height
AlteredValues == {1, 2}

AlteredHeights == {0, 1, 2, MaxHeight}

RulesInits == { RulesCtor(1, 2), RulesCtor(2, MaxHeight) }

InitRules ==
    /\ g_Rules \in RulesInits
    /\ RulesIdle
    /\ TxInit
    /\ CmpIdle
    /\ ValidIdle
    /\ OutIdle
    /\ LaterIdle

\* the bookkeeping of an alteration of g_Rules
Altered ==
    /\ nAltered < MaxAlterations
    /\ nAltered' = nAltered + 1
    /\ rulesRef' = IF csRes # Null /\ ~csRes.threw THEN g_Rules ELSE rulesRef
    /\ csRes' = Null
    /\ UNCHANGED notRules

\* Rules::get().<name> = val
AlterParam(name, val) ==
    /\ g_Rules' = RulesWith(g_Rules, name, val)
    /\ Altered

\* Rules::get().pForks[i].m_Height = h
AlterForkHeight(i, h) ==
    /\ g_Rules' = [ g_Rules EXCEPT !.pForks[i].m_Height = h ]
    /\ Altered

\* Rules::get().UpdateChecksum()
UpdateChecksum ==
    /\ csRes = Null
    /\ IF ~IsForkHeightsConsistent(g_Rules)
       THEN /\ csRes' = [ threw |-> TRUE, pre |-> g_Rules.pForks ]
            /\ UNCHANGED g_Rules
       ELSE /\ csRes' = [ threw |-> FALSE, pre |-> g_Rules.pForks ]
            /\ g_Rules' = RulesUpdateChecksum(g_Rules)
    /\ UNCHANGED << rulesRef, nAltered, notRules >>

NextRules ==
    \/ \E name \in ParamNames, val \in AlteredValues : AlterParam(name, val)
    \/ \E i \in 0..(NumForks - 1), h \in AlteredHeights : AlterForkHeight(i, h)
    \/ UpdateChecksum

SpecRules == InitRules /\ [][NextRules]_vars

-----------------------------------------------------------------------------
\* Emission

AmountBits == 4

\* Height and Amount are unsigned integers of HeightBits and AmountBits bits
HeightMod == 2 ^ HeightBits

AmountMod == 2 ^ AmountBits

\* AmountBig::Type is as wide as a Height and an Amount together
AmountBigMod == HeightMod * AmountMod

\* Rules::get_EmissionEx that adds the quarter from the first drop on
RulesGetEmissionExQuarterEarly(r, h, base) ==
    LET d     == (h - HeightGenesis) % HeightMod
        Drop0 == r.p["Emission.Drop0"]
        Drop1 == r.p["Emission.Drop1"]
        n     == (1 + ((d - Drop0) % HeightMod) \div Drop1) % HeightMod
        base1 == IF n >= 1 THEN (base + base \div 4) % AmountMod ELSE base
    IN  IF d < Drop0
        THEN [ val |-> base, hEnd |-> (HeightGenesis + Drop0) % HeightMod ]
        ELSE IF n >= AmountBits
        THEN [ val |-> 0, hEnd |-> MaxHeight ]
        ELSE [ val  |-> base1 \div (2 ^ n),
               hEnd |-> (HeightGenesis + Drop0 + n * Drop1) % HeightMod ]

\* Rules::get_EmissionEx(h, hEnd, base): the amount returned and hEnd
RulesGetEmissionEx(r, h, base) ==
    LET d     == (h - HeightGenesis) % HeightMod
        Drop0 == r.p["Emission.Drop0"]
        Drop1 == r.p["Emission.Drop1"]
        n     == (1 + ((d - Drop0) % HeightMod) \div Drop1) % HeightMod
        base1 == IF n >= 2 THEN (base + base \div 4) % AmountMod ELSE base
    IN  IF d < Drop0
        THEN [ val |-> base, hEnd |-> (HeightGenesis + Drop0) % HeightMod ]
        ELSE IF n >= AmountBits
        THEN [ val |-> 0, hEnd |-> MaxHeight ]
        ELSE [ val  |-> base1 \div (2 ^ n),
               hEnd |-> (HeightGenesis + Drop0 + n * Drop1) % HeightMod ]

\* Rules::get_Emission(h)
RulesGetEmission(r, h) == RulesGetEmissionEx(r, h, r.p["Emission.Value0"]).val

\* the rules with the emission parameters given
EmissionRulesOf(v0, d0, d1) ==
    RulesWith(RulesWith(RulesWith(RulesCtor(2, MaxHeight),
        "Emission.Value0", v0), "Emission.Drop0", d0), "Emission.Drop1", d1)

\* every emission schedule: Drop1 is not zero (get_EmissionEx asserts it)
EmissionRules ==
    { EmissionRulesOf(v0, d0, d1) :
        v0 \in 0..(AmountMod - 1), d0 \in 0..MaxHeight, d1 \in 1..MaxHeight }

InitEmission ==
    /\ g_Rules \in EmissionRules
    /\ CoreIdle
    /\ LaterIdle

\* Rules::get_Emission(h)
GetEmission(h) ==
    /\ emq' = [ h |-> h, val |-> RulesGetEmission(g_Rules, h) ]
    /\ UNCHANGED << emLoop, notEm >>

NextEmission == \E h \in 0..MaxHeight : GetEmission(h)

SpecEmission == InitEmission /\ [][NextEmission]_vars

HeightRangesAll == [ m_Min : 0..MaxHeight, m_Max : 0..MaxHeight ]

\* HeightRange::IsEmpty
HeightRangeIsEmpty(hr) == hr.m_Min > hr.m_Max

InitRange ==
    /\ g_Rules \in EmissionRules
    /\ CoreIdle
    /\ LaterIdle

\* Rules::get_Emission(res, hr, base) up to the loop: res = Zero, the test of
\* hr.IsEmpty(), hPos = hr.m_Min
RangeEmissionEnter(hr) ==
    /\ emLoop = Null
    /\ emLoop' = [ hr |-> hr, hPos |-> hr.m_Min, res |-> 0, nIter |-> 0, bFailed |-> FALSE,
                   pc |-> IF HeightRangeIsEmpty(hr) THEN "done" ELSE "loop" ]
    /\ UNCHANGED << emq, notEm >>

\* the turns of the loop the model follows
MaxTurns == 2 * AmountBits

\* one turn of the loop of Rules::get_Emission(res, hr, base) on its locals l.
\* bAssert: the build has assertions, and assert(hEnd > hPos) stops the
\* program (pc "assert"); without them the loop goes on, bFailed recording
\* that the asserted condition was false
RangeEmissionTurn(r, l, bAssert) ==
    LET e == RulesGetEmissionEx(r, l.hPos, r.p["Emission.Value0"])
        l1 == [ l EXCEPT !.nIter = l.nIter + 1,
                         !.bFailed = l.bFailed \/ (e.val # 0 /\ ~(e.hEnd > l.hPos)) ]
    IN  IF e.val = 0 THEN [ l1 EXCEPT !.pc = "done" ]
        ELSE IF bAssert /\ ~(e.hEnd > l.hPos) THEN [ l1 EXCEPT !.pc = "assert" ]
        ELSE IF l.hr.m_Max < e.hEnd
        THEN [ l1 EXCEPT !.pc = "done",
                         !.res = (l.res + e.val * ((l.hr.m_Max - l.hPos + 1) % HeightMod))
                                    % AmountBigMod ]
        ELSE [ l1 EXCEPT !.res = (l.res + e.val * ((e.hEnd - l.hPos) % HeightMod))
                                    % AmountBigMod,
                         !.hPos = e.hEnd ]

RangeEmissionStep ==
    /\ emLoop # Null
    /\ emLoop.pc = "loop"
    /\ emLoop.nIter < MaxTurns
    /\ \E bAssert \in BOOLEAN : emLoop' = RangeEmissionTurn(g_Rules, emLoop, bAssert)
    /\ UNCHANGED << emq, notEm >>

NextRange ==
    \/ \E hr \in HeightRangesAll : RangeEmissionEnter(hr)
    \/ RangeEmissionStep

SpecRange == InitRange /\ [][NextRange]_vars

-----------------------------------------------------------------------------
\* Height ranges and maturity

\* HeightRange::IsInRangeRelative
HeightRangeIsInRangeRelative(hr, dh) == dh <= (hr.m_Max - hr.m_Min) % HeightMod

\* HeightRange::IsInRange
HeightRangeIsInRange(hr, h) ==
    HeightRangeIsInRangeRelative(hr, (h - hr.m_Min) % HeightMod)

\* HeightAdd that lets the sum wrap
HeightAddWrapping(trg, val) == (trg + val) % HeightMod

\* HeightAdd(trg, val): trg afterwards
HeightAdd(trg, val) ==
    LET sum == (trg + val) % HeightMod
    IN  IF sum < val THEN MaxHeight ELSE sum

\* Output::get_MinMaturity
OutputGetMinMaturity(r, o, h) ==
    HeightAdd(HeightAdd(h, IF o.m_Coinbase THEN r.p["Maturity.Coinbase"]
                                           ELSE r.p["Maturity.Std"]),
              o.m_Incubation)

\* the maturities the rules are given
MaturityValues == { 0, 1, MaxHeight - 1, MaxHeight }

InitHeights ==
    /\ g_Rules \in { RulesWith(RulesWith(RulesCtor(2, MaxHeight),
                                         "Maturity.Coinbase", mc), "Maturity.Std", ms) :
                     mc \in MaturityValues, ms \in MaturityValues }
    /\ CoreIdle
    /\ LaterIdle

\* hr.IsInRange(h)
IsInRange(hr, h) ==
    /\ HqIdle
    /\ hrq' = [ hr |-> hr, h |-> h, res |-> HeightRangeIsInRange(hr, h) ]
    /\ UNCHANGED << matq, notHq >>

\* o.get_MinMaturity(h)
GetMinMaturity(o, h) ==
    /\ HqIdle
    /\ matq' = [ o |-> o, h |-> h, res |-> OutputGetMinMaturity(g_Rules, o, h) ]
    /\ UNCHANGED << hrq, notHq >>

NextHeights ==
    \/ \E hr \in HeightRangesAll, h \in 0..MaxHeight : IsInRange(hr, h)
    \/ \E cb \in BOOLEAN, inc \in 0..MaxHeight, h \in 0..MaxHeight :
          GetMinMaturity([ MakeOutput(1, inc) EXCEPT !.m_Coinbase = cb ], h)

SpecHeights == InitHeights /\ [][NextHeights]_vars

-----------------------------------------------------------------------------
\* The kernel walker

\* A kernel of a walked vector is named by its path: its index in the vector,
\* then the index in m_vNested at every level below.  OnKrn is a callback:
\* the one modelled records the kernel and returns false on those in reject.

RECURSIVE WalkerProcessVec(_, _, _, _, _)
RECURSIVE WalkerProcessKrnPreOrder(_, _, _, _)
RECURSIVE WalkerProcessKrn(_, _, _, _)

\* IWalker::OnKrn on the kernel at path: the log with the call, its result
WalkerOnKrn(path, reject, st) ==
    [ log |-> Append(st.log, path), ok |-> path \notin reject ]

\* IWalker::Process(krn) that calls OnKrn before it walks the nested kernels
WalkerProcessKrnPreOrder(krn, path, reject, st) ==
    LET st1 == WalkerOnKrn(path, reject, st)
    IN  IF ~st1.ok THEN st1
        ELSE WalkerProcessVec(krn.m_vNested, 1, path, reject, st1)

\* IWalker::Process(const TxKernel& krn): Process(krn.m_vNested) && OnKrn(krn)
WalkerProcessKrn(krn, path, reject, st) ==
    LET st1 == WalkerProcessVec(krn.m_vNested, 1, path, reject, st)
    IN  IF ~st1.ok THEN st1
        ELSE WalkerOnKrn(path, reject, st1)

\* IWalker::Process(const std::vector<TxKernel::Ptr>& v), from index i on
WalkerProcessVec(v, i, path, reject, st) ==
    IF i > Len(v) THEN [ st EXCEPT !.ok = TRUE ]
    ELSE LET st1 == WalkerProcessKrn(v[i], Append(path, i), reject, st)
         IN  IF ~st1.ok THEN st1
             ELSE WalkerProcessVec(v, i + 1, path, reject, st1)

\* the paths of all kernels of the vector v, nested ones included
RECURSIVE KernelPaths(_, _)
KernelPaths(v, path) ==
    UNION { { Append(path, i) } \cup KernelPaths(v[i].m_vNested, Append(path, i)) :
            i \in 1..Len(v) }

MaxNested == 2

\* the sequences of at most two elements of S, and those of at most
\* MaxNested times the same element
SeqsUpTo(S) ==
    UNION { [ 1..n -> S ] : n \in 0..2 }
    \cup { [ i \in 1..n |-> x ] : x \in S, n \in 0..MaxNested }

WalkKernel(nested) ==
    MakeKernelStd(0, 1, MaxHeight, TRUE, 1, << 0 >>, nested, Null, Null)

\* kernel vectors with kernels nested two levels deep
WalkVectors ==
    SeqsUpTo({ WalkKernel(n1) :
                 n1 \in SeqsUpTo({ WalkKernel(n2) : n2 \in SeqsUpTo({ WalkKernel(<<>>) }) }) })

InitWalk ==
    /\ g_Rules = RulesCtor(2, MaxHeight)
    /\ wKrns \in WalkVectors
    /\ wRes = Null
    /\ CoreIdle
    /\ EmIdle /\ HqIdle /\ RdIdle /\ HdrIdle /\ PfIdle /\ HmIdle

\* walker.Process(wKrns) with an OnKrn that returns false on reject
Walk(reject) ==
    /\ wRes = Null
    /\ LET st == WalkerProcessVec(wKrns, 1, <<>>, reject, [ log |-> <<>>, ok |-> TRUE ])
       IN  wRes' = [ log |-> st.log, ret |-> st.ok, reject |-> reject ]
    /\ UNCHANGED << wKrns, notWalk >>

NextWalk ==
    \/ Walk({})
    \/ \E p, q \in KernelPaths(wKrns, <<>>) : Walk({ p, q })

SpecWalk == InitWalk /\ [][NextWalk]_vars

-----------------------------------------------------------------------------
\* Readers and their comparison

\* A reader is the three vectors it reads (inputs, outputs, kernels) and
\* m_pIdx, its position in each; m_pUtxoIn, m_pUtxoOut and m_pKernel are the
\* elements at the positions, NULL past the end (get_FromVector).

\* cmp of two elements of stream t: 1 inputs, 2 outputs, 3 kernels
StreamCmp(r, t, a, b) ==
    IF t = 1 THEN TxElementCmp(a, b)
    ELSE IF t = 2 THEN OutputCmp(a, b)
    ELSE TxKernelCmp(r, a, b)

\* TxVectors::Reader::Reset
ReaderReset(rd) == [ rd EXCEPT !.idx = << 0, 0, 0 >> ]

\* TxVectors::Reader::NextUtxoIn, NextUtxoOut, NextKernel (t = 1, 2, 3)
ReaderNext(rd, t) == [ rd EXCEPT !.idx[t] = rd.idx[t] + 1 ]

RECURSIVE CompareTypeNoRest(_, _, _, _, _)
RECURSIVE CompareType(_, _, _, _, _)

\* COMPARE_TYPE without the test of what is left of the other stream
CompareTypeNoRest(r, t, me, other, st) ==
    IF ~(me.idx[t] < Len(me.v[t]))
    THEN [ me |-> me, other |-> other, st |-> st ]
    ELSE IF ~(other.idx[t] < Len(other.v[t]))
    THEN [ me |-> me, other |-> other, st |-> [ st EXCEPT !.bOtherCovers = FALSE ] ]
    ELSE LET n   == StreamCmp(r, t, me.v[t][me.idx[t] + 1], other.v[t][other.idx[t] + 1])
             st1 == [ bICover      |-> st.bICover /\ ~(n > 0),
                      bOtherCovers |-> st.bOtherCovers /\ ~(n < 0) ]
             me1 == IF n <= 0 THEN ReaderNext(me, t) ELSE me
             ot1 == IF n >= 0 THEN ReaderNext(other, t) ELSE other
         IN  CompareTypeNoRest(r, t, me1, ot1, st1)

\* COMPARE_TYPE(var, fnNext) for stream t: the readers and the two flags after
CompareType(r, t, me, other, st) ==
    IF ~(me.idx[t] < Len(me.v[t]))
    THEN [ me |-> me, other |-> other,
           st |-> IF other.idx[t] < Len(other.v[t])
                  THEN [ st EXCEPT !.bICover = FALSE ] ELSE st ]
    ELSE IF ~(other.idx[t] < Len(other.v[t]))
    THEN [ me |-> me, other |-> other, st |-> [ st EXCEPT !.bOtherCovers = FALSE ] ]
    ELSE LET n   == StreamCmp(r, t, me.v[t][me.idx[t] + 1], other.v[t][other.idx[t] + 1])
             st1 == [ bICover      |-> st.bICover /\ ~(n > 0),
                      bOtherCovers |-> st.bOtherCovers /\ ~(n < 0) ]
             me1 == IF n <= 0 THEN ReaderNext(me, t) ELSE me
             ot1 == IF n >= 0 THEN ReaderNext(other, t) ELSE other
         IN  CompareType(r, t, me1, ot1, st1)

\* TxBase::IReader::Compare
ReaderCompare(r, me, other) ==
    LET c1 == CompareType(r, 1, ReaderReset(me), ReaderReset(other),
                          [ bICover |-> TRUE, bOtherCovers |-> TRUE ])
        c2 == CompareType(r, 2, c1.me, c1.other, c1.st)
    IN  CompareType(r, 3, c2.me, c2.other, c2.st)

MaxReaderSize == 2

\* the elements the streams are made of: two inputs of one commitment and
\* one of another, two outputs, two kernels
StreamElements(t) ==
    IF t = 1 THEN { i \in Inputs : i.m_Commitment = 1 \/ i.m_Internal = 0 }
    ELSE IF t = 2 THEN { MakeOutput(1, 0), MakeOutput(2, 0) }
    ELSE { k \in TxKernels : ~k.m_CanEmbed }

\* the sequences over S of at most MaxReaderSize elements
StreamsOver(S) == UNION { [ 1..n -> S ] : n \in 0..MaxReaderSize }

\* v is sorted ascending under the cmp of stream t
StreamSorted(r, t, v) ==
    \A i, j \in 1..Len(v) : i < j => StreamCmp(r, t, v[i], v[j]) <= 0

\* readers at Reset over sorted vectors of at most MaxReaderSize elements
Readers(r) ==
    { [ v |-> << vi, vo, vk >>, idx |-> << 0, 0, 0 >> ] :
        vi \in { v \in StreamsOver(StreamElements(1)) : StreamSorted(r, 1, v) },
        vo \in { v \in StreamsOver(StreamElements(2)) : StreamSorted(r, 2, v) },
        vk \in { v \in StreamsOver(StreamElements(3)) : StreamSorted(r, 3, v) } }

InitReaders ==
    /\ g_Rules = RulesCtor(1, 2)
    /\ rdThis \in { rd \in Readers(g_Rules) :
                      Len(rd.v[1]) + Len(rd.v[2]) + Len(rd.v[3]) <= MaxReaderSize }
    /\ rdOther \in { rd \in Readers(g_Rules) :
                      Len(rd.v[1]) + Len(rd.v[2]) + Len(rd.v[3]) <= MaxReaderSize }
    /\ rdRes = Null
    /\ CoreIdle
    /\ EmIdle /\ HqIdle /\ WalkIdle /\ HdrIdle /\ PfIdle /\ HmIdle

\* rdThis.NextUtxoIn(), NextUtxoOut() or NextKernel() while there is an element
ThisNext(t) ==
    /\ rdRes = Null
    /\ rdThis.idx[t] < Len(rdThis.v[t])
    /\ rdThis' = ReaderNext(rdThis, t)
    /\ UNCHANGED << rdOther, rdRes, notRd >>

\* the same on rdOther
OtherNext(t) ==
    /\ rdRes = Null
    /\ rdOther.idx[t] < Len(rdOther.v[t])
    /\ rdOther' = ReaderNext(rdOther, t)
    /\ UNCHANGED << rdThis, rdRes, notRd >>

\* rdThis.Compare(std::move(rdOther), bICover, bOtherCovers)
Compare ==
    /\ rdRes = Null
    /\ LET c == ReaderCompare(g_Rules, rdThis, rdOther)
       IN  /\ rdThis' = c.me
           /\ rdOther' = c.other
           /\ rdRes' = c.st
    /\ UNCHANGED notRd

NextReaders ==
    \/ \E t \in 1..3 : ThisNext(t)
    \/ \E t \in 1..3 : OtherNext(t)
    \/ Compare

SpecReaders == InitReaders /\ [][NextReaders]_vars

-----------------------------------------------------------------------------
\* Block headers (Block::SystemState::Full) and their hashes

\* Rules::Prehistoric, a constant of the constructor (first bytes 0, 0x25, 0x2d)
Prehistoric == << 0, 37, 45 >>

RECURSIVE RulesFindForkFrom(_, _, _)

\* the loop of Rules::FindFork(Height) with i indices left to try
RulesFindForkFrom(r, h, i) ==
    IF i = 0 THEN 0
    ELSE IF h >= r.pForks[i - 1].m_Height THEN i - 1
    ELSE RulesFindForkFrom(r, h, i - 1)

\* a FindFork that returns the lowest fork reached instead of the highest
RulesFindForkLowest(r, h) ==
    IF \E i \in 0..(NumForks - 1) : h >= r.pForks[i].m_Height
    THEN CHOOSE i \in 0..(NumForks - 1) :
            /\ h >= r.pForks[i].m_Height
            /\ \A j \in 0..(i - 1) : ~(h >= r.pForks[j].m_Height)
    ELSE 0

\* Rules::FindFork(Height)
RulesFindFork(r, h) == RulesFindForkFrom(r, h, NumForks)

\* a get_HashInternal that absorbs the nonce whatever bTotal is
FullGetHashInternalNonceAlways(r, s, bTotal) ==
    LET iFork == RulesFindFork(r, s.m_Height)
    IN  HashOf(<< s.m_Height >> \o s.m_Prev \o << s.m_ChainWork >> \o s.m_Kernels
               \o s.m_Definition \o << s.m_TimeStamp, s.m_PoW.m_Difficulty.m_Packed >>
               \o (IF iFork >= 2 THEN r.pForks[iFork].m_Hash ELSE << >>)
               \o (IF bTotal THEN s.m_PoW.m_Indices ELSE << >>)
               \o << s.m_PoW.m_Nonce >>)

\* Block::SystemState::Full::get_HashInternal
FullGetHashInternal(r, s, bTotal) ==
    LET iFork == RulesFindFork(r, s.m_Height)
    IN  HashOf(<< s.m_Height >> \o s.m_Prev \o << s.m_ChainWork >> \o s.m_Kernels
               \o s.m_Definition \o << s.m_TimeStamp, s.m_PoW.m_Difficulty.m_Packed >>
               \o (IF iFork >= 2 THEN r.pForks[iFork].m_Hash ELSE << >>)
               \o (IF bTotal THEN s.m_PoW.m_Indices \o << s.m_PoW.m_Nonce >>
                   ELSE << >>))

\* Block::SystemState::Full::get_HashForPoW
FullGetHashForPoW(r, s) == FullGetHashInternal(r, s, FALSE)

\* Block::SystemState::Full::get_Hash
FullGetHash(r, s) ==
    IF s.m_Height >= HeightGenesis THEN FullGetHashInternal(r, s, TRUE)
    ELSE Prehistoric

\* the headers: every height, two values of m_Prev, of the nonce and of the
\* indices
Headers ==
    { [ m_Height |-> h, m_Prev |-> prev, m_ChainWork |-> 1, m_Kernels |-> ZeroHash,
        m_Definition |-> ZeroHash, m_TimeStamp |-> 1,
        m_PoW |-> [ m_Difficulty |-> [ m_Packed |-> 1 ],
                    m_Indices |-> ind, m_Nonce |-> nonce ] ] :
        h \in 0..MaxHeight, prev \in { ZeroHash, Prehistoric },
        ind \in { << 0, 0 >>, << 0, 1 >> }, nonce \in { 0, 1 } }

\* Rules after UpdateChecksum, Fork2 at the start, early, late and never
HeaderRules ==
    { RulesUpdateChecksum(RulesCtor(h[1], h[2])) :
        h \in { << 0, 0 >>, << 1, 2 >>, << 2, MaxHeight - 1 >>, << 1, MaxHeight >> } }

InitHeaders ==
    /\ g_Rules \in HeaderRules
    /\ hdrA \in Headers
    /\ hdrB \in Headers
    /\ hdrRes = [ hv |-> Null, pow |-> Null ]
    /\ CoreIdle
    /\ EmIdle /\ HqIdle /\ WalkIdle /\ RdIdle /\ PfIdle /\ HmIdle

\* get_Hash of the two headers
GetHash ==
    /\ hdrRes.hv = Null
    /\ hdrRes' = [ hdrRes EXCEPT !.hv = << FullGetHash(g_Rules, hdrA),
                                          FullGetHash(g_Rules, hdrB) >> ]
    /\ UNCHANGED << hdrA, hdrB, notHdr >>

\* get_HashForPoW of the two headers
GetHashForPoW ==
    /\ hdrRes.pow = Null
    /\ hdrRes' = [ hdrRes EXCEPT !.pow = << FullGetHashForPoW(g_Rules, hdrA),
                                           FullGetHashForPoW(g_Rules, hdrB) >> ]
    /\ UNCHANGED << hdrA, hdrB, notHdr >>

NextHeaders == GetHash \/ GetHashForPoW

SpecHeaders == InitHeaders /\ [][NextHeaders]_vars

-----------------------------------------------------------------------------
\* Merkle proofs and the kernel proof (TxKernel::LongProof)

\* Merkle::Interpret(hOld, hNew, bNewOnRight): the hash of the two, in order
MerkleInterpretNode(hv, hNew, bNewOnRight) ==
    HashOf(IF bNewOnRight THEN hv \o hNew ELSE hNew \o hv)

RECURSIVE MerkleInterpretFrom(_, _, _)

\* Merkle::Interpret(hv, proof) from node i on; a node is << bOnRight, hash >>
MerkleInterpretFrom(hv, p, i) ==
    IF i > Len(p) THEN hv
    ELSE MerkleInterpretFrom(MerkleInterpretNode(hv, p[i][2], p[i][1]), p, i + 1)

\* Merkle::Interpret(hv, proof)
MerkleInterpret(hv, p) == MerkleInterpretFrom(hv, p, 1)

\* Merkle::HardVerifier over a hard proof (hashes only): m_hv and the
\* position in the proof; ok is what the last call returned
HardVerifierOf(hv, p) == [ m_hv |-> hv, p |-> p, pos |-> 0, ok |-> TRUE ]

\* HardVerifier::InterpretOnce: false at the end of the proof, else the next
\* hash is absorbed on the given side
HardInterpretOnce(ver, bOnRight) ==
    IF ~ver.ok THEN ver
    ELSE IF ver.pos >= Len(ver.p) THEN [ ver EXCEPT !.ok = FALSE ]
    ELSE [ ver EXCEPT !.m_hv = MerkleInterpretNode(ver.m_hv, ver.p[ver.pos + 1], bOnRight),
                      !.pos = ver.pos + 1 ]

RECURSIVE HardInterpretMmr(_, _, _)

\* HardVerifier::InterpretMmr(iIdx, nCount): the path of element iIdx among
\* nCount, level by level: an odd position takes its sibling on the left, an
\* even one its sibling on the right if there is one
HardInterpretMmr(ver, iIdx, nCount) ==
    IF ~ver.ok \/ nCount <= 1 THEN ver
    ELSE IF iIdx % 2 = 1
    THEN HardInterpretMmr(HardInterpretOnce(ver, FALSE), iIdx \div 2, (nCount + 1) \div 2)
    ELSE IF iIdx + 1 < nCount
    THEN HardInterpretMmr(HardInterpretOnce(ver, TRUE), iIdx \div 2, (nCount + 1) \div 2)
    ELSE HardInterpretMmr(ver, iIdx \div 2, (nCount + 1) \div 2)

\* HardVerifier::IsEnd
HardIsEnd(ver) == ver.pos = Len(ver.p)

\* Block::SystemState::Full::IsSane
FullIsSane(r, s) ==
    /\ ~(s.m_Height < HeightGenesis)
    /\ ~(s.m_Height = HeightGenesis /\ s.m_Prev # Prehistoric)

\* Block::SystemState::Full::IsValidPoW; bPoW is what m_PoW.IsValid returns
FullIsValidPoW(r, s, bPoW) == r.p["FakePoW"] = 1 \/ bPoW

\* Block::SystemState::Full::IsValid
FullIsValid(r, s, bPoW) == FullIsSane(r, s) /\ FullIsValidPoW(r, s, bPoW)

\* Block::SystemState::Full::get_ID
FullGetID(r, s) == [ m_Height |-> s.m_Height, m_Hash |-> FullGetHash(r, s) ]

\* an IsValidProofState that does not ask the proof to be at its end
FullIsValidProofStateNoEnd(r, s, id, proof) ==
    IF id.m_Height < HeightGenesis \/ id.m_Height >= s.m_Height THEN FALSE
    ELSE LET v1 == HardInterpretMmr(HardVerifierOf(id.m_Hash, proof),
                                    id.m_Height - HeightGenesis,
                                    s.m_Height - HeightGenesis)
             v2 == HardInterpretOnce(v1, TRUE)
         IN  v1.ok /\ v2.ok /\ v2.m_hv = s.m_Definition

\* Block::SystemState::Full::IsValidProofState
FullIsValidProofState(r, s, id, proof) ==
    IF id.m_Height < HeightGenesis \/ id.m_Height >= s.m_Height THEN FALSE
    ELSE LET v1 == HardInterpretMmr(HardVerifierOf(id.m_Hash, proof),
                                    id.m_Height - HeightGenesis,
                                    s.m_Height - HeightGenesis)
             v2 == HardInterpretOnce(v1, TRUE)
         IN  v1.ok /\ v2.ok /\ HardIsEnd(v2) /\ v2.m_hv = s.m_Definition

\* Block::SystemState::Full::IsValidProofKernel(hvID, proof)
FullIsValidProofKernel(r, s, hvID, proof, bPoW) ==
    IF ~FullIsValid(r, proof.m_State, bPoW) THEN FALSE
    ELSE IF MerkleInterpret(hvID, proof.m_Inner) # proof.m_State.m_Kernels THEN FALSE
    ELSE IF proof.m_State = s THEN TRUE
    ELSE IF proof.m_State.m_Height > s.m_Height THEN FALSE
    ELSE FullIsValidProofState(r, s, FullGetID(r, proof.m_State), proof.m_Outer)

\* a header of the given height, m_Prev, kernels root and definition root
MakeState(h, prev, kernels, definition) ==
    [ m_Height |-> h, m_Prev |-> prev, m_ChainWork |-> 1, m_Kernels |-> kernels,
      m_Definition |-> definition, m_TimeStamp |-> 1,
      m_PoW |-> [ m_Difficulty |-> [ m_Packed |-> 1 ],
                  m_Indices |-> << 0, 0 >>, m_Nonce |-> 0 ] ]

\* the longest hard proof: an element among MaxHeight - 1 has a path of at
\* most HeightBits nodes, and one node follows
MaxHardProof == HeightBits + 2

\* the hash every proof node carries
NodeHash == << 1, 7 >>

\* the inner paths: none, or one node on either side
InnerProofs == { << >> } \cup { << << b, NodeHash >> >> : b \in BOOLEAN }

\* the hard proofs: 0 to MaxHardProof nodes
HardProofs == { [ i \in 1..n |-> NodeHash ] : n \in 0..MaxHardProof }

\* the definition root a prover gives the current state: what the outer
\* proof of the state leads to after the path and one node
ProvenDefinition(r, hThis, st, outer) ==
    IF st.m_Height < HeightGenesis \/ st.m_Height >= hThis THEN ZeroHash
    ELSE HardInterpretOnce(
            HardInterpretMmr(HardVerifierOf(FullGetHash(r, st), outer),
                             st.m_Height - HeightGenesis, hThis - HeightGenesis),
            TRUE).m_hv

\* The kernel ID is hvKrn. The proof's state has the kernels root the inner
\* path leads to, or another one; the current state is the proof's state
\* itself, or a state with the definition root the outer proof leads to, or
\* with another one.
InitProof ==
    /\ g_Rules \in { RulesUpdateChecksum(RulesCtor(1, 2)),
                     RulesUpdateChecksum(RulesWith(RulesCtor(1, 2), "FakePoW", 0)) }
    /\ \E hSt \in 0..MaxHeight, hThis \in 0..MaxHeight,
          prev \in { ZeroHash, Prehistoric },
          inner \in InnerProofs, outer \in HardProofs,
          bKernels \in BOOLEAN, bDefinition \in BOOLEAN, bSame \in BOOLEAN :
          LET hvKrn == << 1, 5 >>
              st == MakeState(hSt, prev,
                              IF bKernels THEN MerkleInterpret(hvKrn, inner) ELSE ZeroHash,
                              ZeroHash)
              def == IF bDefinition THEN ProvenDefinition(g_Rules, hThis, st, outer)
                     ELSE ZeroHash
          IN  /\ pfProof = [ hvID |-> hvKrn, m_Inner |-> inner, m_State |-> st,
                             m_Outer |-> outer ]
              /\ pfThis = IF bSame THEN st ELSE MakeState(hThis, ZeroHash, ZeroHash, def)
    /\ pfRes = Null
    /\ CoreIdle
    /\ EmIdle /\ HqIdle /\ WalkIdle /\ RdIdle /\ HdrIdle /\ HmIdle

\* pfThis.IsValidProofKernel(hvID, proof); bPoW is whether the PoW of the
\* proof's state is a valid solution
IsValidProofKernel(bPoW) ==
    /\ pfRes = Null
    /\ pfRes' = [ ret |-> FullIsValidProofKernel(g_Rules, pfThis, pfProof.hvID, pfProof, bPoW),
                  bPoW |-> bPoW ]
    /\ UNCHANGED << pfThis, pfProof, notPf >>

NextProof == \E bPoW \in BOOLEAN : IsValidProofKernel(bPoW)

SpecProof == InitProof /\ [][NextProof]_vars

-----------------------------------------------------------------------------
\* Asset emission kernels and the running excess

\* the values emitted (positive) or burnt (negative), and none
EmitValues == (-2)..2

\* AssetEmit kernels of asset aid and value val over commitment c, valid
\* from before Fork2 or from Fork2, signed by the two keys or not
AssetEmitKernels ==
    { LET k == MakeKernelAssetEmit(0, hMin, 3, TRUE, c, << 0 >>, << >>, aid, val)
      IN  IF bSigned THEN TxKernelAssetEmitSign(k, c, aid, 0)
          ELSE TxKernelNonStdMsgToID(TxKernelNonStdUpdateMsg(k)) :
        hMin \in { 1, 2 }, c \in { 0, 1, 3 }, aid \in 0..2, val \in EmitValues,
        bSigned \in BOOLEAN }

\* Rules with Fork2 at 2, confidential assets enabled or not, with or
\* without the deposit
AssetEmitRules ==
    { RulesWith(RulesWith(RulesCtor(1, 2), "CA.Enabled", e), "CA.Deposit", d) :
        e \in { 0, 1 }, d \in { 0, 1 } }

InitAssetEmit ==
    /\ g_Rules \in AssetEmitRules
    /\ vKrn \in AssetEmitKernels
    /\ vRes = Null
    /\ TxInit
    /\ CmpIdle
    /\ OutIdle
    /\ RulesIdle
    /\ LaterIdle

\* vKrn.IsValid(hScheme, exc) with the excess exc0 summed so far
ValidateEmission(hScheme, exc0) ==
    /\ vRes' = [ h |-> hScheme, exc0 |-> exc0 ]
                  @@ KernelIsValid(g_Rules, vKrn, hScheme, exc0, Null)
    /\ UNCHANGED << notValid, vKrn >>

NextAssetEmit ==
    \E h \in SchemeHeights, exc0 \in 0..(GroupOrder - 1) : ValidateEmission(h, exc0)

SpecAssetEmit == InitAssetEmit /\ [][NextAssetEmit]_vars

-----------------------------------------------------------------------------
\* The history of states (Block::SystemState::HistoryMap)

\* m_Map is a std::map<Height, Full>: a function from the heights it holds

\* the greatest and the smallest key of a map that is not empty
MapLastKey(m) == CHOOSE k \in DOMAIN m : \A j \in DOMAIN m : j <= k

MapFirstKey(m) == CHOOSE k \in DOMAIN m : \A j \in DOMAIN m : k <= j

\* m_Map.erase(it) with it at key k
MapErase(m, k) == [ x \in DOMAIN m \ { k } |-> m[x] ]

\* m_Map[k] = s
MapAssign(m, k, s) == [ x \in DOMAIN m \cup { k } |-> IF x = k THEN s ELSE m[x] ]

\* ZeroObject(s) on a Full
ZeroState ==
    [ m_Height |-> 0, m_Prev |-> ZeroHash, m_ChainWork |-> 0, m_Kernels |-> ZeroHash,
      m_Definition |-> ZeroHash, m_TimeStamp |-> 0,
      m_PoW |-> [ m_Difficulty |-> [ m_Packed |-> 0 ],
                  m_Indices |-> << 0, 0 >>, m_Nonce |-> 0 ] ]

RECURSIVE HistoryMapAddStatesFrom(_, _, _)

\* the loop of HistoryMap::AddStates from element i on
HistoryMapAddStatesFrom(m, pS, i) ==
    IF i > Len(pS) THEN m
    ELSE HistoryMapAddStatesFrom(MapAssign(m, pS[i].m_Height, pS[i]), pS, i + 1)

\* HistoryMap::AddStates(pS, nCount)
HistoryMapAddStates(m, pS) == HistoryMapAddStatesFrom(m, pS, 1)

RECURSIVE HistoryMapDeleteFromAbove(_, _)
RECURSIVE HistoryMapDeleteFrom(_, _)

\* a DeleteFrom that stops at the state of height h
HistoryMapDeleteFromAbove(m, h) ==
    IF DOMAIN m = {} THEN m
    ELSE IF MapLastKey(m) <= h THEN m
    ELSE HistoryMapDeleteFromAbove(MapErase(m, MapLastKey(m)), h)

\* HistoryMap::DeleteFrom(h)
HistoryMapDeleteFrom(m, h) ==
    IF DOMAIN m = {} THEN m
    ELSE IF MapLastKey(m) < h THEN m
    ELSE HistoryMapDeleteFrom(MapErase(m, MapLastKey(m)), h)

RECURSIVE HistoryMapShrinkLoop(_, _, _, _)

\* The loop of ShrinkToWindow. With the map empty, begin() is end(): the
\* assertion fails where it is compiled in (bAssert); where it is not,
\* it->first reads past the map, and the loop ends if what is read happens
\* to be above h0 (bStray) and erases end() otherwise.
HistoryMapShrinkLoop(m, h0, bAssert, bStray) ==
    IF DOMAIN m = {}
    THEN IF bAssert THEN [ m |-> m, pc |-> "assert" ]
         ELSE IF bStray THEN [ m |-> m, pc |-> "strayed" ]
         ELSE [ m |-> m, pc |-> "undefined" ]
    ELSE IF MapFirstKey(m) > h0 THEN [ m |-> m, pc |-> "done" ]
    ELSE HistoryMapShrinkLoop(MapErase(m, MapFirstKey(m)), h0, bAssert, bStray)

\* HistoryMap::ShrinkToWindow(dh)
HistoryMapShrinkToWindow(m, dh, bAssert, bStray) ==
    IF DOMAIN m = {} THEN [ m |-> m, pc |-> "done" ]
    ELSE IF MapLastKey(m) <= dh THEN [ m |-> m, pc |-> "done" ]
    ELSE HistoryMapShrinkLoop(m, (MapLastKey(m) - dh) % HeightMod, bAssert, bStray)

RECURSIVE HistoryMapEnumFrom(_, _)

\* HistoryMap::Enum(w, pBelow) for a walker that lets it go on: the states
\* it gives to OnState, those of the keys in K, highest first
HistoryMapEnumFrom(m, K) ==
    IF K = {} THEN << >>
    ELSE LET k == CHOOSE x \in K : \A j \in K : j <= x
         IN  << m[k] >> \o HistoryMapEnumFrom(m, K \ { k })

\* the states HistoryMap::Enum visits: all for pBelow NULL, else those below
HistoryMapEnum(m, pBelow) ==
    HistoryMapEnumFrom(m, IF pBelow = Null THEN DOMAIN m
                          ELSE { k \in DOMAIN m : k < pBelow[1] })

\* IHistory::get_Tip(s): its walker takes the first state and stops Enum
HistoryGetTip(m) ==
    LET visited == HistoryMapEnum(m, Null)
    IN  IF visited # << >> THEN [ ret |-> TRUE, s |-> visited[1] ]
        ELSE [ ret |-> FALSE, s |-> ZeroState ]

\* the greatest height of the states given to the history
MaxHistory == 3

\* the states given to AddStates: two of every height
HistoryStates ==
    { MakeState(h, ZeroHash, ZeroHash, d) :
        h \in 0..MaxHistory, d \in { ZeroHash, NodeHash } }

InitHistory ==
    /\ g_Rules = RulesCtor(1, 2)
    /\ m_Map = << >>
    /\ hmAdded = << >>
    /\ hmRes = [ op |-> "HistoryMap", pc |-> "done" ]
    /\ CoreIdle
    /\ EmIdle /\ HqIdle /\ WalkIdle /\ RdIdle /\ HdrIdle /\ PfIdle

\* m_Map.AddStates(pS, nCount): one state, or two of one height or of two
\* heights in a row
AddStates(pS) ==
    /\ hmRes.pc \in { "done", "strayed" }
    /\ m_Map' = HistoryMapAddStates(m_Map, pS)
    /\ hmAdded' = [ h \in DOMAIN hmAdded \cup { pS[i].m_Height : i \in 1..Len(pS) } |->
                      IF \E i \in 1..Len(pS) : pS[i].m_Height = h
                      THEN pS[CHOOSE i \in 1..Len(pS) :
                                /\ pS[i].m_Height = h
                                /\ \A j \in (i + 1)..Len(pS) : pS[j].m_Height # h]
                      ELSE hmAdded[h] ]
    /\ hmRes' = [ op |-> "AddStates", pc |-> "done" ]
    /\ UNCHANGED notHm

\* m_Map.DeleteFrom(h)
DeleteFrom(h) ==
    /\ hmRes.pc \in { "done", "strayed" }
    /\ m_Map' = HistoryMapDeleteFrom(m_Map, h)
    /\ hmRes' = [ op |-> "DeleteFrom", pc |-> "done", h |-> h, before |-> m_Map ]
    /\ UNCHANGED << hmAdded, notHm >>

\* m_Map.ShrinkToWindow(dh) in a build with assertions (bAssert) or without
ShrinkToWindow(dh, bAssert, bStray) ==
    /\ hmRes.pc \in { "done", "strayed" }
    /\ LET res == HistoryMapShrinkToWindow(m_Map, dh, bAssert, bStray)
       IN  /\ m_Map' = res.m
           /\ hmRes' = [ op |-> "ShrinkToWindow", pc |-> res.pc, dh |-> dh,
                         before |-> m_Map ]
    /\ UNCHANGED << hmAdded, notHm >>

\* m_Map.get_Tip(s)
GetTip ==
    /\ hmRes.pc \in { "done", "strayed" }
    /\ LET res == HistoryGetTip(m_Map)
       IN  hmRes' = [ op |-> "get_Tip", pc |-> "done", ret |-> res.ret, s |-> res.s ]
    /\ UNCHANGED << m_Map, hmAdded, notHm >>

NextHistory ==
    \/ \E s \in HistoryStates : AddStates(<< s >>)
    \/ \E s1, s2 \in HistoryStates :
          /\ s2.m_Height = s1.m_Height \/ s2.m_Height = s1.m_Height + 1
          /\ s1.m_Definition # s2.m_Definition
          /\ AddStates(<< s1, s2 >>)
    \/ \E h \in 0..(MaxHistory + 1) : DeleteFrom(h)
    \/ \E dh \in 0..(MaxHistory + 1), bAssert \in BOOLEAN :
          \E bStray \in IF bAssert THEN { FALSE } ELSE BOOLEAN :
              ShrinkToWindow(dh, bAssert, bStray)
    \/ GetTip

SpecHistory == InitHistory /\ [][NextHistory]_vars

-----------------------------------------------------------------------------
\* Chains of headers (NextPrefix, IsNext)

\* the longest chain of headers built
MaxChain == 6

\* a NextPrefix that advances the height before it takes the hash
FullNextPrefixHeightFirst(r, s) ==
    LET s1 == [ s EXCEPT !.m_Height = (s.m_Height + 1) % HeightMod ]
    IN  [ s1 EXCEPT !.m_Prev = FullGetHash(r, s1) ]

\* Block::SystemState::Full::NextPrefix
FullNextPrefix(r, s) ==
    LET s1 == [ s EXCEPT !.m_Prev = FullGetHash(r, s) ]
    IN  [ s1 EXCEPT !.m_Height = (s1.m_Height + 1) % HeightMod ]

\* Block::SystemState::Full::IsNext
FullIsNext(r, s, sNext) ==
    IF (s.m_Height + 1) % HeightMod # sNext.m_Height THEN FALSE
    ELSE sNext.m_Prev = FullGetHash(r, s)

\* hdrB is the header being built, zeroed at first; hdrA is the copy taken
\* of it before the last NextPrefix; hdrRes counts the NextPrefix calls
InitChain ==
    /\ g_Rules \in { RulesUpdateChecksum(RulesCtor(1, 2)),
                     RulesUpdateChecksum(RulesCtor(2, MaxHeight)) }
    /\ hdrA = Null
    /\ hdrB = ZeroState
    /\ hdrRes = [ nPrefix |-> 0 ]
    /\ CoreIdle
    /\ EmIdle /\ HqIdle /\ WalkIdle /\ RdIdle /\ PfIdle /\ HmIdle

\* fields of hdrB other than m_Height and m_Prev are written
SetFields(definition, nonce) ==
    /\ hdrB' = [ hdrB EXCEPT !.m_Definition = definition, !.m_PoW.m_Nonce = nonce ]
    /\ hdrB' # hdrB
    /\ UNCHANGED << hdrA, hdrRes, notHdr >>

\* a copy of hdrB is kept and hdrB.NextPrefix() is called, MaxChain times
\* at most
NextPrefix ==
    /\ hdrRes.nPrefix < MaxChain
    /\ hdrA' = hdrB
    /\ hdrB' = FullNextPrefix(g_Rules, hdrB)
    /\ hdrRes' = [ nPrefix |-> hdrRes.nPrefix + 1 ]
    /\ UNCHANGED notHdr

NextChain ==
    \/ \E definition \in { ZeroHash, NodeHash }, nonce \in { 0, 1 } :
          SetFields(definition, nonce)
    \/ NextPrefix

SpecChain == InitChain /\ [][NextChain]_vars

-----------------------------------------------------------------------------
\* Properties of Normalize

Min2(a, b) == IF a < b THEN a ELSE b

\* how many elements of v carry the commitment c
NumWithCommitment(v, c) == Cardinality({ i \in DOMAIN v : v[i].m_Commitment = c })

\* how many elements of v equal x
NumEqual(v, x) == Cardinality({ i \in DOMAIN v : v[i] = x })

\* v and w hold the same elements, each as many times
SameElements(v, w) ==
    /\ Len(v) = Len(w)
    /\ \A i \in DOMAIN v : NumEqual(v, v[i]) = NumEqual(w, v[i])

\* the input/output pairs that share a commitment, each element in one pair
RECURSIVE NumPairs(_, _, _)
NumPairs(ins, outs, cs) ==
    IF cs = {} THEN 0
    ELSE LET c == CHOOSE x \in cs : TRUE
         IN  Min2(NumWithCommitment(ins, c), NumWithCommitment(outs, c))
             + NumPairs(ins, outs, cs \ {c})

\* C1: after Normalize no remaining input and remaining output have equal
\* commitments, whatever the vectors held (duplicates included)
C1_NoCommonCommitment ==
    nNormalized > 0 =>
        \A i \in DOMAIN m_vInputs, o \in DOMAIN m_vOutputs :
            m_vInputs[i].m_Commitment # m_vOutputs[o].m_Commitment

\* Normalize ran on two inputs of one commitment and an output of it
C1_Witness ==
    /\ nNormalized = 1
    /\ Len(txPrev[1]) = 2
    /\ txPrev[1][1].m_Commitment = txPrev[1][2].m_Commitment
    /\ NumWithCommitment(txPrev[2], txPrev[1][1].m_Commitment) = 1
    /\ Len(m_vInputs) = 1
    /\ retNormalize = 1

\* C2: Normalize returns the number n of input/output pairs cut through; the
\* input and the output vector each get n shorter, the kernel vector keeps its
\* length; outputs {O1,O2} merged with input spend(O1), output {O3} normalize
\* to inputs {}, outputs {O2,O3} and return 1
C2_CutThroughCount ==
    nNormalized > 0 =>
        /\ retNormalize = NumPairs(txPrev[1], txPrev[2], Commitments)
        /\ Len(m_vInputs) = Len(txPrev[1]) - retNormalize
        /\ Len(m_vOutputs) = Len(txPrev[2]) - retNormalize
        /\ Len(m_vKernels) = Len(txPrev[3])
        /\ (/\ txPrev[1] = << [ m_Commitment |-> 1, m_Internal |-> 0 ] >>
            /\ txPrev[2] = << MakeOutput(1, 0), MakeOutput(2, 0), MakeOutput(3, 0) >>)
           => /\ m_vInputs = <<>>
              /\ m_vOutputs = << MakeOutput(2, 0), MakeOutput(3, 0) >>
              /\ retNormalize = 1

\* the scenario of the claim: {O1,O2} merged with {spend(O1)} / {O3}, normalized
C2_Witness ==
    /\ nNormalized = 1
    /\ txPrev[1] = << [ m_Commitment |-> 1, m_Internal |-> 0 ] >>
    /\ txPrev[2] = << MakeOutput(1, 0), MakeOutput(2, 0), MakeOutput(3, 0) >>
    /\ retNormalize = 1
    /\ m_vInputs = <<>>

\* C3 as stated: a second Normalize returns 0 and leaves inputs, outputs and
\* kernels unchanged in content and order
C3_IdempotentExact ==
    nNormalized = 2 =>
        /\ retNormalize = 0
        /\ << m_vInputs, m_vOutputs, m_vKernels >> = txPrev

\* C3 amended: a second Normalize returns 0, leaves the outputs unchanged, and
\* leaves the inputs and the kernels unchanged up to the relative order of
\* elements that compare equal under cmp
C3_IdempotentUpToEqual ==
    nNormalized = 2 =>
        /\ retNormalize = 0
        /\ m_vOutputs = txPrev[2]
        /\ SameElements(m_vInputs, txPrev[1])
        /\ \A i \in DOMAIN m_vInputs : TxElementCmp(m_vInputs[i], txPrev[1][i]) = 0
        /\ SameElements(m_vKernels, txPrev[3])
        /\ \A i \in DOMAIN m_vKernels :
              TxKernelCmp(g_Rules, m_vKernels[i], txPrev[3][i]) = 0

\* a second Normalize ran on inputs, outputs and kernels and reordered
\* two inputs of one commitment
C3_Witness ==
    /\ nNormalized = 2
    /\ Len(m_vInputs) = 2 /\ Len(m_vOutputs) > 0 /\ Len(m_vKernels) > 0
    /\ m_vInputs # txPrev[1]

-----------------------------------------------------------------------------
\* Properties of TxKernel::cmp

Fork2Height == g_Rules.pForks[2].m_Height

BothAtFork2 ==
    /\ cmpRes # <<>>
    /\ krnA.m_Height.m_Min >= Fork2Height
    /\ krnB.m_Height.m_Min >= Fork2Height

\* C4 as stated: for two kernels at or above fork 2, cmp is the 3-valued
\* comparison of the two IDs and nothing else (equal IDs compare as 0)
C4_CmpPurelyByID ==
    BothAtFork2 => cmpRes[1] = CmpBytes(krnA.m_ID, krnB.m_ID)

\* C4 amended: for two kernels at or above fork 2, cmp is the 3-valued
\* comparison of the two IDs when the IDs differ; when they are equal cmp goes
\* on to the subtype and the subtype's own fields, and is 0 only if those
\* agree as well
C4_CmpByIDThenFields ==
    BothAtFork2 =>
        /\ krnA.m_ID # krnB.m_ID =>
              /\ cmpRes[1] = CmpBytes(krnA.m_ID, krnB.m_ID)
              /\ cmpRes[2] = CmpBytes(krnB.m_ID, krnA.m_ID)
        /\ (krnA.m_ID = krnB.m_ID /\ krnA.m_Subtype # krnB.m_Subtype) =>
              cmpRes[1] = CmpSimple(krnA.m_Subtype, krnB.m_Subtype)
        /\ (krnA.m_ID = krnB.m_ID /\ cmpRes[1] = 0) =>
              /\ krnA.m_Subtype = krnB.m_Subtype
              /\ krnA.m_Subtype = SubtypeStd =>
                    /\ krnA.m_Commitment = krnB.m_Commitment
                    /\ krnA.m_Signature = krnB.m_Signature
                    /\ krnA.m_Height = krnB.m_Height

\* two validly signed kernels at fork 2 with up-to-date, equal IDs were
\* compared, and cmp told them apart
C4_Witness ==
    /\ BothAtFork2
    /\ krnA = UpdateID(krnA)
    /\ krnB = UpdateID(krnB)
    /\ krnA.m_ID = krnB.m_ID
    /\ SignatureIsValid(krnA.m_Signature, krnA.m_ID, krnA.m_Commitment)
    /\ SignatureIsValid(krnB.m_Signature, krnB.m_ID, krnB.m_Commitment)
    /\ cmpRes[1] # 0

\* C5: a kernel whose minimum height is below fork 2 compares -1 against one
\* at or above it, and that one +1 against it, whatever their other fields
C5_PreFork2SortsFirst ==
    cmpRes # <<>> =>
        /\ (krnA.m_Height.m_Min < Fork2Height /\ krnB.m_Height.m_Min >= Fork2Height)
              => cmpRes = << -1, 1 >>
        /\ (krnB.m_Height.m_Min < Fork2Height /\ krnA.m_Height.m_Min >= Fork2Height)
              => cmpRes = << 1, -1 >>

\* a kernel below fork 2 with the greater subtype and the greater ID was
\* compared with one at fork 2
C5_Witness ==
    /\ cmpRes = << -1, 1 >>
    /\ krnA.m_Height.m_Min < Fork2Height
    /\ krnB.m_Height.m_Min >= Fork2Height
    /\ krnA.m_Subtype > krnB.m_Subtype
    /\ CmpBytes(krnA.m_ID, krnB.m_ID) > 0

-----------------------------------------------------------------------------
\* Properties of kernel validation

Fork1Height == g_Rules.pForks[1].m_Height

\* the point IsValidBase is handed for a nested kernel (the standard kernel
\* passes its commitment, the others nothing)
NestedComm(k) == IF k.m_Subtype = SubtypeStd THEN << k.m_Commitment >> ELSE Null

\* the height range of inner lies inside the height range of outer
RangeInside(inner, outer) ==
    /\ outer.m_Height.m_Min <= inner.m_Height.m_Min
    /\ inner.m_Height.m_Max <= outer.m_Height.m_Max

\* C6 as stated: a kernel validated as nested inside a parent passes
\* IsValidBase only if its height range is contained in the parent's
C6_NestedRangeInParent ==
    (vRes # Null /\ vRes.ok) =>
        \A i \in DOMAIN vKrn.m_vNested : RangeInside(vKrn.m_vNested[i], vKrn)

\* C6 amended: a kernel validated as nested inside a parent passes
\* IsValidBase only if the parent's height range is contained in the nested
\* kernel's (nested.min <= parent.min and parent.max <= nested.max)
C6_ParentRangeInNested ==
    \A i \in DOMAIN vKrn.m_vNested :
        /\ (vRes # Null /\ vRes.ok) => RangeInside(vKrn, vKrn.m_vNested[i])
        /\ \A h \in SchemeHeights :
              IsValidBase(g_Rules, vKrn.m_vNested[i], h, 0, vKrn,
                          NestedComm(vKrn.m_vNested[i])).ok
                => RangeInside(vKrn, vKrn.m_vNested[i])

\* a kernel was accepted whose nested kernel has a strictly wider range
C6_Witness ==
    /\ vRes # Null
    /\ vRes.ok
    /\ Len(vKrn.m_vNested) = 1
    /\ vKrn.m_vNested[1].m_Height.m_Min < vKrn.m_Height.m_Min
    /\ vKrn.m_vNested[1].m_Height.m_Max > vKrn.m_Height.m_Max

\* the nested kernels of k are in ascending order
NestedAscending(k) ==
    \A i \in 1..(Len(k.m_vNested) - 1) :
        TxKernelCmp(g_Rules, k.m_vNested[i], k.m_vNested[i + 1]) <= 0

\* the commitment, the signature and the base checks of the top-level standard
\* kernel k are in order for hScheme, its fork 1 features left aside
OtherwiseValid(k, hScheme) ==
    /\ ImportNnz(k.m_Commitment)
    /\ hScheme >= Fork2Height => k.m_Height.m_Min >= Fork2Height
    /\ \A i \in DOMAIN k.m_vNested :
          KernelIsValid(g_Rules, k.m_vNested[i], hScheme, 0, k).ok
    /\ hScheme < Fork2Height => NestedAscending(k)
    /\ SignatureIsValid(k.m_Signature, k.m_ID,
                        IF hScheme < Fork2Height
                        THEN PointAdd(k.m_Commitment, PointNeg(SumCommitments(k.m_vNested)))
                        ELSE k.m_Commitment)

\* C7: a standard kernel with a relative lock or the can-embed flag is
\* rejected by IsValid for every hScheme below fork 1, and accepted for
\* hScheme at or above fork 1 when its commitment, signature and base checks
\* are otherwise valid
C7_ForkGatedRejection ==
    (vRes # Null /\ (vKrn.m_pRelativeLock # Null \/ vKrn.m_CanEmbed)) =>
        /\ vRes.h < Fork1Height => ~vRes.ok
        /\ (vRes.h >= Fork1Height /\ OtherwiseValid(vKrn, vRes.h)) => vRes.ok

\* a kernel with a relative lock and the can-embed flag was accepted at or
\* above fork 1, and IsValid rejects the same kernel just below fork 1
C7_Witness ==
    /\ vRes # Null
    /\ vRes.ok
    /\ vRes.h >= Fork1Height
    /\ vKrn.m_pRelativeLock # Null
    /\ vKrn.m_CanEmbed
    /\ ~KernelIsValid(g_Rules, vKrn, Fork1Height - 1, 0, Null).ok

-----------------------------------------------------------------------------
\* Properties of Output::IsValid

\* C8: whenever Output::IsValid returns true the output carries exactly one
\* of a Confidential and a Public range proof, a coinbase output carries the
\* Public one, and a Public proof is carried only if Rules.AllowPublicUtxos
\* is set or the output is coinbase
C8_ValidOutputProofs ==
    (outRes # Null /\ outRes.ok) =>
        /\ (outp.m_pConfidential # Null) # (outp.m_pPublic # Null)
        /\ outp.m_Coinbase => outp.m_pPublic # Null
        /\ outp.m_pPublic # Null =>
              (g_Rules.p["AllowPublicUtxos"] # 0 \/ outp.m_Coinbase)

\* a coinbase output with a Public proof was accepted though public UTXOs
\* are not allowed
C8_Witness ==
    /\ outRes # Null
    /\ outRes.ok
    /\ outp.m_Coinbase
    /\ outp.m_pPublic # Null
    /\ outp.m_pConfidential = Null
    /\ g_Rules.p["AllowPublicUtxos"] = 0

-----------------------------------------------------------------------------
\* Properties of Rules::UpdateChecksum

NonMonotonic(r) ==
    \E i \in 1..(NumForks - 1) : r.pForks[i].m_Height < r.pForks[i - 1].m_Height

\* C9: Rules::UpdateChecksum throws whenever some fork height is lower than
\* the height of the preceding fork, and when it throws no fork hash in
\* pForks has been modified
C9_ThrowsOnNonMonotonic ==
    csRes # Null =>
        /\ NonMonotonic(g_Rules) => csRes.threw
        /\ csRes.threw =>
              \A i \in 0..(NumForks - 1) :
                  g_Rules.pForks[i].m_Hash = csRes.pre[i].m_Hash

\* UpdateChecksum threw on rules that had their hashes computed before, then
\* got a fork height below the preceding one
C9_Witness ==
    /\ csRes # Null
    /\ csRes.threw
    /\ NonMonotonic(g_Rules)
    /\ g_Rules.pForks[0].m_Height = HeightGenesis - 1
    /\ g_Rules.pForks[0].m_Hash # ZeroHash

\* the fields the oracle absorbs in which r1 and r2 differ: parameters by
\* name, fork heights by index
DiffParams(r1, r2) == { n \in ParamNames : r1.p[n] # r2.p[n] }

DiffHeights(r1, r2) ==
    { i \in 1..(NumForks - 1) : r1.pForks[i].m_Height # r2.pForks[i].m_Height }

\* the fork whose hash is the first taken after the field is absorbed
ForkOfParam(n) ==
    IF n \in SeqRange(ParamsFork0) THEN 0
    ELSE IF n \in SeqRange(ParamsFork1) THEN 1 ELSE 2

\* both rulesRef and g_Rules carry hashes that UpdateChecksum computed from
\* their own parameters
BothChecksummed ==
    /\ rulesRef # Null
    /\ csRes # Null
    /\ ~csRes.threw

SameHashes(r1, r2) ==
    \A i \in 0..(NumForks - 1) : r1.pForks[i].m_Hash = r2.pForks[i].m_Hash

\* exactly one absorbed field differs
OneFieldDiffers(r1, r2) ==
    Cardinality(DiffParams(r1, r2)) + Cardinality(DiffHeights(r1, r2)) = 1

\* the fork of the one field that differs
ForkOfDiff(r1, r2) ==
    IF DiffParams(r1, r2) # {}
    THEN ForkOfParam(CHOOSE n \in DiffParams(r1, r2) : TRUE)
    ELSE CHOOSE i \in DiffHeights(r1, r2) : TRUE

\* C10 as stated: UpdateChecksum is deterministic, and altering any single
\* absorbed parameter changes pForks[0].hash
C10_AnyFieldChangesFork0Hash ==
    BothChecksummed =>
        /\ (DiffParams(rulesRef, g_Rules) = {} /\ DiffHeights(rulesRef, g_Rules) = {})
              => SameHashes(rulesRef, g_Rules)
        /\ OneFieldDiffers(rulesRef, g_Rules)
              => rulesRef.pForks[0].m_Hash # g_Rules.pForks[0].m_Hash

\* C10 amended: UpdateChecksum is deterministic, and when it does not throw,
\* altering a single absorbed parameter changes the hash of the first fork
\* whose hash is taken after the parameter is absorbed and of every later
\* fork, and leaves the hashes of the earlier forks as they were: it changes
\* pForks[0].hash only if it is absorbed before pForks[0].hash is taken
C10_FieldChangesItsForkHash ==
    BothChecksummed =>
        /\ (DiffParams(rulesRef, g_Rules) = {} /\ DiffHeights(rulesRef, g_Rules) = {})
              => SameHashes(rulesRef, g_Rules)
        /\ OneFieldDiffers(rulesRef, g_Rules)
              => \A i \in 0..(NumForks - 1) :
                    (rulesRef.pForks[i].m_Hash # g_Rules.pForks[i].m_Hash)
                        <=> (i >= ForkOfDiff(rulesRef, g_Rules))

\* CA.Deposit alone was altered between two checksums: the hash of fork 2
\* changed, the hash of fork 0 did not
C10_Witness ==
    /\ BothChecksummed
    /\ DiffParams(rulesRef, g_Rules) = { "CA.Deposit" }
    /\ DiffHeights(rulesRef, g_Rules) = {}
    /\ rulesRef.pForks[0].m_Hash = g_Rules.pForks[0].m_Hash
    /\ rulesRef.pForks[2].m_Hash # g_Rules.pForks[2].m_Hash

-----------------------------------------------------------------------------
\* Properties of the emission

\* the emission at height h as the formula states it, over the integers but
\* for the sum in the Amount's width
FormulaEmission(r, h) ==
    LET d      == h - HeightGenesis
        value0 == r.p["Emission.Value0"]
        drop0  == r.p["Emission.Drop0"]
        drop1  == r.p["Emission.Drop1"]
        n      == 1 + (d - drop0) \div drop1
    IN  IF d < drop0 THEN value0
        ELSE IF n >= AmountBits THEN 0
        ELSE ((value0 + (IF n >= 2 THEN value0 \div 4 ELSE 0)) % AmountMod) \div (2 ^ n)

\* C11: for every height h >= genesis, get_Emission(h) is value0 when
\* d = h - genesis < drop0; otherwise, with n = 1 + (d - drop0) / drop1, it is
\* (value0 + (value0 / 4 if n >= 2)) >> n in the Amount's unsigned arithmetic,
\* and 0 when n reaches the Amount's width
C11_EmissionFormula ==
    (emq # Null /\ emq.h >= HeightGenesis) =>
        emq.val = FormulaEmission(g_Rules, emq.h)

\* an emission past the second drop, with the quarter added, that is not zero
C11_Witness ==
    /\ emq # Null
    /\ emq.h >= HeightGenesis + g_Rules.p["Emission.Drop0"] + g_Rules.p["Emission.Drop1"]
    /\ emq.val > 0
    /\ emq.val # g_Rules.p["Emission.Value0"] \div 4

\* the sum of get_Emission(i) over i in lo..hi, in the width of AmountBig
RECURSIVE SumEmission(_, _, _)
SumEmission(r, lo, hi) ==
    IF lo > hi THEN 0
    ELSE (RulesGetEmission(r, hi) + SumEmission(r, lo, hi - 1)) % AmountBigMod

\* C12: for every height H >= genesis the range emission of [genesis, H] is
\* the sum of the per-height get_Emission(i) over the range; the loop ends
\* (within one turn per emission period) and its assertion hEnd > hPos holds
\* at every turn
C12_RangeEmissionIsSum ==
    (emLoop # Null /\ emLoop.hr.m_Min = HeightGenesis
        /\ emLoop.hr.m_Max >= HeightGenesis) =>
        /\ ~emLoop.bFailed
        /\ emLoop.pc # "assert"
        /\ emLoop.nIter <= AmountBits + 1
        /\ emLoop.pc = "done"
              => emLoop.res = SumEmission(g_Rules, HeightGenesis, emLoop.hr.m_Max)

-----------------------------------------------------------------------------
\* Properties of height ranges and maturity

\* C13: for every HeightRange {min, max}, empty or not, and every height h,
\* IsInRange(h) is true exactly when min <= h <= max
C13_IsInRangeExact ==
    hrq # Null =>
        (hrq.res <=> (hrq.hr.m_Min <= hrq.h /\ hrq.h <= hrq.hr.m_Max))

\* the maturity of the output o as the sum of the integers
ExactMaturity(r, o, h) ==
    h + (IF o.m_Coinbase THEN r.p["Maturity.Coinbase"] ELSE r.p["Maturity.Std"])
      + o.m_Incubation

\* C14: get_MinMaturity(h) is h + (Maturity.Coinbase if coinbase else
\* Maturity.Std) + incubation, saturating at MaxHeight: whenever the exact
\* sum exceeds the maximum of a Height, at either addition, the result is
\* MaxHeight and never a wrapped smaller value
C14_MinMaturitySaturates ==
    matq # Null =>
        matq.res = IF ExactMaturity(g_Rules, matq.o, matq.h) > MaxHeight
                   THEN MaxHeight
                   ELSE ExactMaturity(g_Rules, matq.o, matq.h)

\* the first addition fits and the second, of the incubation, does not
C14_Witness ==
    /\ matq # Null
    /\ matq.o.m_Coinbase
    /\ matq.h + g_Rules.p["Maturity.Coinbase"] < MaxHeight
    /\ matq.o.m_Incubation < MaxHeight
    /\ ExactMaturity(g_Rules, matq.o, matq.h) > MaxHeight
    /\ matq.res = MaxHeight

-----------------------------------------------------------------------------
\* Properties of the kernel walker

\* the kernel at path q is nested, at any depth, in the kernel at path p
IsNestedIn(q, p) == Len(q) > Len(p) /\ SubSeq(q, 1, Len(p)) = p

\* OnKrn was called at most once per kernel; the first call that returned
\* false was the last call, and Process returned false exactly then; a walk
\* that was not aborted called OnKrn on every kernel
WalkOnceAndAbort ==
    LET log == wRes.log
    IN  /\ \A i, j \in 1..Len(log) : log[i] = log[j] => i = j
        /\ \A i \in 1..Len(log) : log[i] \in wRes.reject => i = Len(log)
        /\ wRes.ret <=> (\A i \in 1..Len(log) : log[i] \notin wRes.reject)
        /\ wRes.ret => { log[i] : i \in 1..Len(log) } = KernelPaths(wKrns, <<>>)

\* C15 as stated: the walk is depth-first in pre-order: OnKrn is invoked on a
\* kernel before it is invoked on any of its nested kernels, once per
\* kernel, and the first OnKrn returning false aborts the walk
C15_WalkPreOrder ==
    wRes # Null =>
        /\ WalkOnceAndAbort
        /\ \A i, j \in 1..Len(wRes.log) :
              IsNestedIn(wRes.log[j], wRes.log[i]) => i < j

\* C15 amended: the walk is depth-first in post-order: OnKrn is invoked on a
\* kernel after it was invoked on all of its nested kernels, once per
\* kernel, and the first OnKrn returning false aborts the walk so that no
\* further OnKrn call is made and Process returns false
C15_WalkPostOrder ==
    wRes # Null =>
        /\ WalkOnceAndAbort
        /\ \A i \in 1..Len(wRes.log) :
              \A q \in KernelPaths(wKrns, <<>>) :
                  IsNestedIn(q, wRes.log[i]) =>
                      \E j \in 1..(i - 1) : wRes.log[j] = q
        /\ \A i, j \in 1..Len(wRes.log) :
              (i < j /\ Len(wRes.log[i]) = Len(wRes.log[j])
                  /\ SubSeq(wRes.log[i], 1, Len(wRes.log[i]) - 1)
                       = SubSeq(wRes.log[j], 1, Len(wRes.log[j]) - 1))
                => wRes.log[i][Len(wRes.log[i])] < wRes.log[j][Len(wRes.log[j])]

\* a walk over kernels nested two levels deep that OnKrn aborted on a kernel
\* with nested kernels, after these were visited
C15_Witness ==
    /\ wRes # Null
    /\ ~wRes.ret
    /\ Len(wRes.log) >= 3
    /\ \E i \in 1..(Len(wRes.log) - 1) :
          IsNestedIn(wRes.log[i], wRes.log[Len(wRes.log)])
    /\ \E q \in KernelPaths(wKrns, <<>>) : Len(q) = 3

-----------------------------------------------------------------------------
\* Properties of IReader::Compare

\* the elements of b equal under cmp to b[j] are at most as many as those of a
CoversStream(r, t, a, b) ==
    \A j \in 1..Len(b) :
        Cardinality({ k \in 1..Len(b) : StreamCmp(r, t, b[k], b[j]) = 0 })
            <= Cardinality({ i \in 1..Len(a) : StreamCmp(r, t, a[i], b[j]) = 0 })

\* in every stream a includes b as a multiset
Covers(r, a, b) == \A t \in 1..3 : CoversStream(r, t, a.v[t], b.v[t])

\* C16: for two readers whose three streams are sorted ascending under cmp,
\* Compare sets bICover exactly when in every stream each element of the
\* other reader is matched by a distinct equal element of this reader, and
\* bOtherCovers exactly when the symmetric inclusion holds, wherever the
\* readers stood before (both are Reset first)
C16_CompareIsInclusion ==
    rdRes # Null =>
        /\ rdRes.bICover <=> Covers(g_Rules, rdThis, rdOther)
        /\ rdRes.bOtherCovers <=> Covers(g_Rules, rdOther, rdThis)

\* Compare has run on a reader that holds an input twice (two inputs equal
\* under cmp) against one that holds it once: it covers, the other does not
C16_Witness ==
    /\ rdRes # Null
    /\ rdRes.bICover
    /\ ~rdRes.bOtherCovers
    /\ Len(rdThis.v[1]) = 2
    /\ Len(rdOther.v[1]) = 1
    /\ TxElementCmp(rdThis.v[1][1], rdThis.v[1][2]) = 0
    /\ rdThis.v[1][1] # rdThis.v[1][2]

-----------------------------------------------------------------------------
\* Properties of the header hashes

\* a and b agree in every field but the PoW nonce and the PoW indices
SameButPoWSolution(a, b) ==
    [ a EXCEPT !.m_PoW.m_Nonce = 0, !.m_PoW.m_Indices = << >> ]
        = [ b EXCEPT !.m_PoW.m_Nonce = 0, !.m_PoW.m_Indices = << >> ]

\* C17: two headers that differ only in PoW nonce and/or PoW indices have
\* the same get_HashForPoW; at heights >= genesis their get_Hash differs as
\* soon as the nonce or the indices differ (both are absorbed); and headers
\* equal in every field have equal hashes under the same Rules
C17_PoWHashIgnoresSolution ==
    /\ (hdrRes.pow # Null /\ SameButPoWSolution(hdrA, hdrB))
          => hdrRes.pow[1] = hdrRes.pow[2]
    /\ (hdrRes.hv # Null /\ SameButPoWSolution(hdrA, hdrB)
            /\ hdrA.m_Height >= HeightGenesis)
          => /\ hdrA.m_PoW.m_Nonce # hdrB.m_PoW.m_Nonce => hdrRes.hv[1] # hdrRes.hv[2]
             /\ hdrA.m_PoW.m_Indices # hdrB.m_PoW.m_Indices => hdrRes.hv[1] # hdrRes.hv[2]
    /\ (hdrRes.hv # Null /\ hdrRes.pow # Null /\ hdrA = hdrB)
          => hdrRes.hv[1] = hdrRes.hv[2] /\ hdrRes.pow[1] = hdrRes.pow[2]

\* both hashes computed of two headers past Fork2 that differ in nonce and
\* in indices and in nothing else
C17_Witness ==
    /\ hdrRes.hv # Null
    /\ hdrRes.pow # Null
    /\ SameButPoWSolution(hdrA, hdrB)
    /\ hdrA.m_PoW.m_Nonce # hdrB.m_PoW.m_Nonce
    /\ hdrA.m_PoW.m_Indices # hdrB.m_PoW.m_Indices
    /\ hdrA.m_Height >= g_Rules.pForks[2].m_Height
    /\ hdrA.m_Height >= HeightGenesis
    /\ hdrRes.pow[1] = hdrRes.pow[2]
    /\ hdrRes.hv[1] # hdrRes.hv[2]

\* the highest fork index whose height is <= h (0 if there is none)
HighestForkAt(r, h) ==
    LET S == { i \in 0..(NumForks - 1) : r.pForks[i].m_Height <= h }
    IN  IF S = {} THEN 0 ELSE CHOOSE i \in S : \A j \in S : j <= i

\* r with another hash for fork j
WithOtherForkHash(r, j) ==
    [ r EXCEPT !.pForks[j].m_Hash = r.pForks[j].m_Hash \o << 1 >> ]

\* C20: with i the highest fork index whose height is <= h, the hash of a
\* header at height h (get_HashForPoW, and get_Hash from genesis on) changes
\* with the hash of fork j exactly when j = i and i >= 2; below the Fork2
\* height get_Hash and get_HashForPoW change with no fork hash
C20_ForkHashAbsorbedFromFork2 ==
    LET i == HighestForkAt(g_Rules, hdrA.m_Height)
    IN  \A j \in 0..(NumForks - 1) :
          LET r2 == WithOtherForkHash(g_Rules, j)
          IN  /\ hdrRes.pow # Null =>
                    ((FullGetHashForPoW(r2, hdrA) # hdrRes.pow[1]) <=> (j = i /\ i >= 2))
              /\ (hdrRes.hv # Null /\ hdrA.m_Height >= HeightGenesis) =>
                    ((FullGetHash(r2, hdrA) # hdrRes.hv[1]) <=> (j = i /\ i >= 2))
              /\ (hdrRes.hv # Null /\ hdrRes.pow # Null
                      /\ hdrA.m_Height < g_Rules.pForks[2].m_Height) =>
                    /\ FullGetHash(r2, hdrA) = hdrRes.hv[1]
                    /\ FullGetHashForPoW(r2, hdrA) = hdrRes.pow[1]

\* both hashes computed of a header past Fork2, under Rules whose Fork2 is
\* above genesis, and the Fork2 hash is in both
C20_Witness ==
    /\ hdrRes.hv # Null
    /\ hdrRes.pow # Null
    /\ g_Rules.pForks[2].m_Height > HeightGenesis
    /\ hdrA.m_Height >= g_Rules.pForks[2].m_Height
    /\ FullGetHash(WithOtherForkHash(g_Rules, 2), hdrA) # hdrRes.hv[1]
    /\ FullGetHashForPoW(WithOtherForkHash(g_Rules, 2), hdrA) # hdrRes.pow[1]
    /\ FullGetHash(WithOtherForkHash(g_Rules, 1), hdrA) = hdrRes.hv[1]

-----------------------------------------------------------------------------
\* Properties of the kernel proof

\* the hard proof p is a path of element iIdx among nCount, then exactly one
\* node, then nothing, and leads from hv to root
HardProofLeadsTo(hv, p, iIdx, nCount, root) ==
    \E n \in 0..(Len(p) - 1) :
        LET path == HardInterpretMmr(HardVerifierOf(hv, SubSeq(p, 1, n)), iIdx, nCount)
        IN  /\ path.ok
            /\ path.pos = n
            /\ n + 1 = Len(p)
            /\ MerkleInterpretNode(path.m_hv, p[n + 1], TRUE) = root

\* C18: IsValidProofKernel accepts a LongProof only if the inner path leads
\* from the kernel ID to the kernels root of the proof's state, and either
\* the proof's state is the current state, or its height is >= genesis and
\* below the current height and the outer hard proof (the path in the MMR of
\* states, exactly one further node, nothing left over) leads from the ID of
\* the proof's state to the definition root of the current state
C18_KernelProofAccepted ==
    (pfRes # Null /\ pfRes.ret) =>
        /\ MerkleInterpret(pfProof.hvID, pfProof.m_Inner) = pfProof.m_State.m_Kernels
        /\ \/ pfProof.m_State = pfThis
           \/ /\ pfProof.m_State.m_Height >= HeightGenesis
              /\ pfProof.m_State.m_Height < pfThis.m_Height
              /\ HardProofLeadsTo(FullGetHash(g_Rules, pfProof.m_State), pfProof.m_Outer,
                                  pfProof.m_State.m_Height - HeightGenesis,
                                  pfThis.m_Height - HeightGenesis,
                                  pfThis.m_Definition)

\* a proof accepted through its outer proof: the state is an earlier one and
\* the outer proof has a path in the MMR and the further node
C18_Witness ==
    /\ pfRes # Null
    /\ pfRes.ret
    /\ pfProof.m_State # pfThis
    /\ Len(pfProof.m_Inner) = 1
    /\ Len(pfProof.m_Outer) >= 3

-----------------------------------------------------------------------------
\* Properties of asset emission

\* V times the point p
PointTimes(p, V) == (p * V) % GroupOrder

\* C19 as stated: a successfully validated AssetEmit kernel of value +V
\* adds its commitment and +V times the asset generator to the running
\* excess, and of value -V its commitment and -V times the asset generator
C19_EmitAddsValueTimesGenerator ==
    (vRes # Null /\ vRes.ok) =>
        LET V == IF vKrn.m_Value > 0 THEN vKrn.m_Value ELSE -vKrn.m_Value
            added == PointTimes(HGen(vKrn.m_AssetID), V)
        IN  vRes.exc = PointAdd(PointAdd(vRes.exc0, vKrn.m_Commitment),
                                IF vKrn.m_Value > 0 THEN added ELSE PointNeg(added))

\* C19: a successfully validated AssetEmit kernel of value +V adds its
\* commitment and V times the negated asset generator (with CA.Deposit, V
\* times H minus the asset generator) to the running excess, and of value
\* -V its commitment and the negation of that
C19_EmitAddsNegatedGenerator ==
    (vRes # Null /\ vRes.ok) =>
        LET V == IF vKrn.m_Value > 0 THEN vKrn.m_Value ELSE -vKrn.m_Value
            gen == IF g_Rules.p["CA.Deposit"] # 0
                   THEN PointAdd(HGenBeam, PointNeg(HGen(vKrn.m_AssetID)))
                   ELSE PointNeg(HGen(vKrn.m_AssetID))
            added == PointTimes(gen, V)
        IN  vRes.exc = PointAdd(PointAdd(vRes.exc0, vKrn.m_Commitment),
                                IF vKrn.m_Value > 0 THEN added ELSE PointNeg(added))

\* an emission of more than one unit validated without the deposit on an
\* excess that is not zero
C19_Witness ==
    /\ vRes # Null
    /\ vRes.ok
    /\ vKrn.m_Subtype = SubtypeAssetEmit
    /\ vKrn.m_Value > 1
    /\ g_Rules.p["CA.Deposit"] = 0
    /\ vRes.exc0 # 0

-----------------------------------------------------------------------------
\* Properties of the history of states

\* m restricted to the keys in K
MapRestrict(m, K) == [ x \in DOMAIN m \cap K |-> m[x] ]

\* C21: for every content of the map and every window dh, dh = 0 included,
\* ShrinkToWindow(dh) ends with its assertion (the map is not empty) true at
\* every iteration, keeps the highest state, and leaves exactly the states
\* whose height is greater than tip - dh
C21_ShrinkKeepsWindow ==
    hmRes.op = "ShrinkToWindow" =>
        /\ hmRes.pc = "done"
        /\ DOMAIN hmRes.before # {} =>
              LET tip == MapLastKey(hmRes.before)
              IN  /\ tip \in DOMAIN m_Map
                  /\ m_Map[tip] = hmRes.before[tip]
                  /\ m_Map = MapRestrict(hmRes.before,
                                         { k \in DOMAIN hmRes.before : k > tip - hmRes.dh })

-----------------------------------------------------------------------------
\* C22: after any sequence of AddStates, DeleteFrom and ShrinkToWindow calls
\* that returned, the map holds per height at most one state, the one most
\* recently added for that height, under its own height; DeleteFrom(h) has
\* removed exactly the states of height >= h; get_Tip returns true with the
\* stored state of greatest height, or false with a zeroed state exactly
\* when the map is empty
C22_MapByHeightAndTip ==
    hmRes.pc \in { "done", "strayed" } =>
        /\ \A h \in DOMAIN m_Map :
              /\ m_Map[h].m_Height = h
              /\ h \in DOMAIN hmAdded
              /\ m_Map[h] = hmAdded[h]
        /\ hmRes.op = "DeleteFrom" =>
              m_Map = MapRestrict(hmRes.before,
                                  { k \in DOMAIN hmRes.before : k < hmRes.h })
        /\ hmRes.op = "get_Tip" =>
              /\ hmRes.ret <=> DOMAIN m_Map # {}
              /\ hmRes.ret =>
                    /\ hmRes.s.m_Height \in DOMAIN m_Map
                    /\ hmRes.s = m_Map[hmRes.s.m_Height]
                    /\ \A k \in DOMAIN m_Map : k <= hmRes.s.m_Height
              /\ ~hmRes.ret => hmRes.s = ZeroState

\* get_Tip has returned the highest of several states of a map from which
\* states that had been added were removed
C22_Witness ==
    /\ hmRes.op = "get_Tip"
    /\ hmRes.ret
    /\ Cardinality(DOMAIN m_Map) >= 2
    /\ \E h \in DOMAIN hmAdded : h \notin DOMAIN m_Map
    /\ \E h \in DOMAIN m_Map : m_Map[h].m_Definition # ZeroHash

-----------------------------------------------------------------------------
\* Properties of chains of headers

\* C23: from a zeroed header (height 0), with NextPrefix applied repeatedly
\* and the other fields written at will between the calls, the first header
\* produced has height 1 and m_Prev = Prehistoric and is sane, and every
\* header s kept as it was and the header NextPrefix made of it satisfy
\* s.IsNext(next)
C23_NextPrefixChains ==
    /\ hdrRes.nPrefix = 1 =>
          /\ hdrB.m_Height = 1
          /\ hdrB.m_Prev = Prehistoric
          /\ FullIsSane(g_Rules, hdrB)
    /\ hdrRes.nPrefix >= 1 => FullIsNext(g_Rules, hdrA, hdrB)

\* the third header of a chain past Fork2, made of a header whose fields
\* had been written, and itself written since
C23_Witness ==
    /\ hdrRes.nPrefix = 3
    /\ hdrA.m_Height >= g_Rules.pForks[2].m_Height
    /\ hdrA.m_Definition # ZeroHash
    /\ hdrA.m_PoW.m_Nonce # 0
    /\ hdrB.m_Definition # hdrA.m_Definition
    /\ FullIsNext(g_Rules, hdrA, hdrB)

====
